---- MODULE Spec2Model ----
(***************************************************************************)
(* Idemix membership identities of fabric-smart-client: the identity and   *)
(* signingIdentity values (msp/idemix/id.go) and the support / provider    *)
(* that parse, validate and issue them (msp/idemix provider).              *)
(*                                                                         *)
(* Conventions.                                                            *)
(*  - A Go error is a sequence of messages: <<>> is nil, and Wrap /        *)
(*    WithMessage put their message in front of the cause.                 *)
(*  - A Go []byte that may be nil is <<>> (nil) or <<b>> (non-nil, b its   *)
(*    bytes); plain byte strings are sequences over Byte.                  *)
(*  - A marshaled protobuf message is a record of its field values with a  *)
(*    "form": "canonical" is the one encoding proto.Marshal produces (each *)
(*    non-default field once, in tag order), "noncanonical" any other      *)
(*    encoding of the same values that proto.Unmarshal accepts (fields     *)
(*    reordered or repeated, defaults written out), "garbage" bytes that   *)
(*    proto.Unmarshal rejects.                                             *)
(*  - The crypto engine (bccsp) is opaque: every answer it gives to a call *)
(*    is an input of the operation, drawn from all answers its interface   *)
(*    allows.                                                              *)
(***************************************************************************)
EXTENDS Integers, Sequences, FiniteSets, TLC

VARIABLES
    prov,       \* the provider NewProvider returned last, NoProvider before
    keyStore,   \* SKIs of the pseudonym secret keys the engine persisted
    registry,   \* serialized identities registered with the signer service
    nDerived,   \* number of pseudonym keys derived so far
    last,       \* the last call: its operation, inputs, engine answers, result
    db,         \* the badgerDB: its txn and txnLock fields
    txns,       \* the update transactions badger has handed out
    dbCalls,    \* per goroutine, the store call it is in and where
    deliver,    \* the DeliverReceive call: its stream, its event, its position
    eventCh,    \* the event channel of that call and its receiver
    registrySP, \* the serviceProvider: its services and serviceMap fields
    lookups,    \* the last registry call, and what each interface resolved to first
    node,       \* the Node being built: its NodeSynthesizer fields
    nodeCall    \* the last call on the node, and whether it panicked

identityVars == <<prov, keyStore, registry, nDerived, last>>
dbVars == <<db, txns, dbCalls>>
deliverVars == <<deliver, eventCh>>
spVars == <<registrySP, lookups>>
nodeVars == <<node, nodeCall>>
notIdentity == <<dbVars, deliverVars, spVars, nodeVars>>
notDB == <<identityVars, deliverVars, spVars, nodeVars>>
notDeliver == <<identityVars, dbVars, spVars, nodeVars>>
notSP == <<identityVars, dbVars, deliverVars, nodeVars>>
notNode == <<identityVars, dbVars, deliverVars, spVars>>
vars == <<identityVars, dbVars, deliverVars, spVars, nodeVars>>

----------------------------------------------------------------------------
(* Bounds and value sets *)

MaxKeyLen == 3
MaxIds == 2

Byte == {1, 2}

RECURSIVE SeqsUpTo(_, _)
SeqsUpTo(S, n) ==
    IF n = 0 THEN {<<>>}
    ELSE LET shorter == SeqsUpTo(S, n - 1)
         IN  shorter \cup {Append(q, x) : q \in shorter, x \in S}

Keys == SeqsUpTo(Byte, MaxKeyLen)

Names == {"OrgXMSP", "OrgYMSP"}
Proofs == {<<7>>, <<8>>}

----------------------------------------------------------------------------
(* Errors (github.com/pkg/errors) *)

NoErr == <<>>
Errorf(msg) == <<msg>>
Wrap(err, msg) == IF err = NoErr THEN NoErr ELSE <<msg>> \o err
WithMessage(err, msg) == IF err = NoErr THEN NoErr ELSE <<msg>> \o err

EngineErr == <<"engine error">>
ProtoErr == <<"proto: cannot parse invalid wire-format data">>

\* What bccsp.Verify may return: (valid, err).
VerifyAnswers == [valid : BOOLEAN, err : {NoErr, EngineErr}]
\* What a call returning (value, err) may do.
ErrAnswers == {NoErr, EngineErr}

----------------------------------------------------------------------------
(* Roles *)

MSPRole_MEMBER == 0
MSPRole_ADMIN == 1
MEMBER == 1
ADMIN == 2

getIdemixRoleFromMSPRole(role) ==
    IF role.Role = MSPRole_ADMIN THEN ADMIN ELSE MEMBER

checkRole(bitmask, role) == (bitmask \div role) % 2 = 1

rhIndex == 3

----------------------------------------------------------------------------
(* Protobuf messages and their wire forms *)

None == <<>>
Some(b) == <<b>>

\* Faulty variant of UnmarshalBytes: an absent field reads back as present and
\* empty.
UnmarshalBytesPresent(b) == Some(b)

\* proto3 bytes field: a field of length 0 is never written by Marshal and
\* reads back as nil.
UnmarshalBytes(b) == IF b = <<>> THEN None ELSE Some(b)
MarshalBytes(opt) == IF opt = None THEN <<>> ELSE opt[1]

EmptyOUWire ==
    [form |-> "canonical", MspIdentifier |-> "",
     OrganizationalUnitIdentifier |-> "", CertifiersIdentifier |-> <<>>]
EmptyRoleWire ==
    [form |-> "canonical", MspIdentifier |-> "", Role |-> MSPRole_MEMBER]
EmptyInnerWire ==
    [form |-> "canonical", NymX |-> <<>>, NymY |-> <<>>, Ou |-> EmptyOUWire,
     Role |-> EmptyRoleWire, Proof |-> <<>>]

\* proto.Marshal of an OrganizationUnit, an MSPRole, a SerializedIdemixIdentity
\* and a SerializedIdentity.
MarshalOU(ou) ==
    [form |-> "canonical", MspIdentifier |-> ou.MspIdentifier,
     OrganizationalUnitIdentifier |-> ou.OrganizationalUnitIdentifier,
     CertifiersIdentifier |-> ou.CertifiersIdentifier]

MarshalRole(role) ==
    [form |-> "canonical", MspIdentifier |-> role.MspIdentifier, Role |-> role.Role]

MarshalIdemix(serialized) ==
    [form |-> "canonical",
     NymX |-> MarshalBytes(serialized.NymX), NymY |-> MarshalBytes(serialized.NymY),
     Ou |-> serialized.Ou, Role |-> serialized.Role, Proof |-> serialized.Proof]

MarshalSerializedIdentity(sID) ==
    [form |-> "canonical", Mspid |-> sID.Mspid, IdBytes |-> sID.IdBytes]

\* proto.Unmarshal: the message and the error.
UnmarshalSerializedIdentity(raw) ==
    IF raw.form = "garbage"
    THEN [err |-> ProtoErr, msg |-> [Mspid |-> "", IdBytes |-> EmptyInnerWire]]
    ELSE [err |-> NoErr, msg |-> [Mspid |-> raw.Mspid, IdBytes |-> raw.IdBytes]]

UnmarshalIdemix(b) ==
    IF b.form = "garbage"
    THEN [err |-> ProtoErr,
          msg |-> [NymX |-> None, NymY |-> None, Ou |-> EmptyOUWire,
                   Role |-> EmptyRoleWire, Proof |-> <<>>]]
    ELSE [err |-> NoErr,
          msg |-> [NymX |-> UnmarshalBytes(b.NymX), NymY |-> UnmarshalBytes(b.NymY),
                   Ou |-> b.Ou, Role |-> b.Role, Proof |-> b.Proof]]

UnmarshalOU(b) ==
    IF b.form = "garbage"
    THEN [err |-> ProtoErr,
          msg |-> [MspIdentifier |-> "", OrganizationalUnitIdentifier |-> "",
                   CertifiersIdentifier |-> <<>>]]
    ELSE [err |-> NoErr,
          msg |-> [MspIdentifier |-> b.MspIdentifier,
                   OrganizationalUnitIdentifier |-> b.OrganizationalUnitIdentifier,
                   CertifiersIdentifier |-> b.CertifiersIdentifier]]

UnmarshalRole(b) ==
    IF b.form = "garbage"
    THEN [err |-> ProtoErr, msg |-> [MspIdentifier |-> "", Role |-> MSPRole_MEMBER]]
    ELSE [err |-> NoErr, msg |-> [MspIdentifier |-> b.MspIdentifier, Role |-> b.Role]]

----------------------------------------------------------------------------
(* Engine keys *)

\* The issuer public key handle of an authority, and its SKI.
IssuerKey(name) == [kind |-> "issuerPK", of |-> name]
RevocationKey(name) == [kind |-> "revocationPK", of |-> name]
IssuerSKI == <<9>>

\* A pseudonym public key handle: Bytes() is its raw encoding, SKI() the
\* storage id the engine derives from it.
\* bytesErr is what its Bytes() returns as error.
NymPK(raw, bytesErr) == [kind |-> "nymPK", raw |-> raw, bytesErr |-> bytesErr]
KeyBytes(k) == [raw |-> IF k.bytesErr = NoErr THEN k.raw ELSE <<>>, err |-> k.bytesErr]
SKI(k) == k.raw

----------------------------------------------------------------------------
(* identity (id.go) *)

Support(name, epoch) ==
    [name |-> name, issuerPublicKey |-> IssuerKey(name),
     revocationPK |-> RevocationKey(name), epoch |-> epoch]

\* newIdentity: the identity, or a panic when the key cannot be marshalled.
newIdentity(provider, NymPublicKey, role, ou, proof) ==
    LET b == KeyBytes(NymPublicKey)
    IN  [panic |-> b.err # NoErr,
         id |-> [NymPublicKey |-> NymPublicKey,
                 support |-> provider,
                 id |-> [Mspid |-> provider.name, Id |-> b.raw],
                 Role |-> role,
                 OU |-> ou,
                 associationProof |-> proof]]

GetMSPIdentifier(id) == id.support.name

\* identity.GetOrganizationalUnits: bytesErr is what Bytes() of the issuer
\* public key returns as error. The function has no error result: it returns
\* nil (None) after logging the error.
GetOrganizationalUnits(id, bytesErr) ==
    IF bytesErr # NoErr
    THEN None
    ELSE Some([CertifiersIdentifier |-> id.support.issuerPublicKey,
               OrganizationalUnitIdentifier |-> id.OU.OrganizationalUnitIdentifier])

\* identity.SatisfiesPrincipal: it panics for every principal and returns
\* nothing; the identity is not touched.
SatisfiesPrincipal(id, principal) ==
    [err |-> NoErr, panic |-> TRUE, id |-> id]

\* The engine call verifyProof makes.
VerifyProofCall(id) ==
    [fn |-> "Verify",
     key |-> id.support.issuerPublicKey,
     sig |-> id.associationProof,
     msg |-> <<>>,
     RevocationPublicKey |-> id.support.revocationPK,
     Attributes |-> << [Type |-> "Bytes", Value |-> <<id.OU.OrganizationalUnitIdentifier>>],
                       [Type |-> "Int", Value |-> <<getIdemixRoleFromMSPRole(id.Role)>>],
                       [Type |-> "Hidden", Value |-> <<>>],
                       [Type |-> "Hidden", Value |-> <<>>] >>,
     RhIndex |-> rhIndex,
     Epoch |-> id.support.epoch]

\* Faulty variant of verifyProof: the engine's boolean is dropped.
verifyProofErrOnly(id, ans) ==
    [err |-> ans.err, panic |-> FALSE, calls |-> <<VerifyProofCall(id)>>]

\* Faulty variant of verifyProof: every answer of "invalid" is treated as an
\* unexpected condition.
verifyProofPanicOnInvalid(id, ans) ==
    IF ~ans.valid
    THEN [err |-> NoErr, panic |-> TRUE, calls |-> <<VerifyProofCall(id)>>]
    ELSE [err |-> ans.err, panic |-> FALSE, calls |-> <<VerifyProofCall(id)>>]

\* verifyProof: ans is the engine's (valid, err).
verifyProof(id, ans) ==
    IF ans.err = NoErr /\ ~ans.valid
    THEN [err |-> NoErr, panic |-> TRUE, calls |-> <<VerifyProofCall(id)>>]
    ELSE [err |-> ans.err, panic |-> FALSE, calls |-> <<VerifyProofCall(id)>>]

Validate(id, ans) ==
    IF GetMSPIdentifier(id) # id.support.name
    THEN [err |-> Errorf("the supplied identity does not belong to this msp"),
          panic |-> FALSE, calls |-> <<>>]
    ELSE verifyProof(id, ans)

\* The engine call identity.Verify makes.
VerifyCall(id, msg, sig) ==
    [fn |-> "Verify", key |-> id.NymPublicKey, sig |-> sig, msg |-> msg,
     IssuerPK |-> id.support.issuerPublicKey]

\* identity.Verify: the error it returns.
Verify(id, msg, sig, ans) == ans.err

\* Faulty variant of SplitX: the division rounds up.
SplitXCeil(raw) == SubSeq(raw, 1, (Len(raw) + 1) \div 2)

\* Division of the raw pseudonym key in Serialize.
SplitX(raw) == SubSeq(raw, 1, Len(raw) \div 2)
SplitY(raw) == SubSeq(raw, Len(raw) \div 2 + 1, Len(raw))

EmptyWire == [form |-> "canonical", Mspid |-> "", IdBytes |-> EmptyInnerWire]

\* identity.Serialize: the bytes and the error.
Serialize(id) ==
    LET b == KeyBytes(id.NymPublicKey)
        serialized == [NymX |-> Some(SplitX(b.raw)), NymY |-> Some(SplitY(b.raw)),
                       Ou |-> MarshalOU(id.OU), Role |-> MarshalRole(id.Role),
                       Proof |-> id.associationProof]
        sID == [Mspid |-> GetMSPIdentifier(id), IdBytes |-> MarshalIdemix(serialized)]
    IN  IF b.err # NoErr
        THEN [raw |-> EmptyWire, err |-> Wrap(b.err, "could not serialize nym of identity")]
        ELSE [raw |-> MarshalSerializedIdentity(sID), err |-> NoErr]

----------------------------------------------------------------------------
(* support.Deserialize *)

\* Faulty variant of KeyImportCall: the key is imported to stay.
KeyImportCallPersistent(raw) == [fn |-> "KeyImport", raw |-> raw, Temporary |-> FALSE]

\* The engine call that imports the pseudonym public key.
KeyImportCall(raw) == [fn |-> "KeyImport", raw |-> raw, Temporary |-> TRUE]

\* Faulty variant of RawNymPublicKey: the halves are joined in the wrong order.
RawNymPublicKeySwapped(serialized) ==
    MarshalBytes(serialized.NymY) \o MarshalBytes(serialized.NymX)

\* The raw pseudonym public key: nym_x followed by nym_y.
RawNymPublicKey(serialized) ==
    MarshalBytes(serialized.NymX) \o MarshalBytes(serialized.NymY)

Fail(err, calls) == [ret |-> None, err |-> err, panic |-> FALSE, calls |-> calls]
Panic(calls) == [ret |-> None, err |-> NoErr, panic |-> TRUE, calls |-> calls]

\* eng: the engine's answers to this call's KeyImport (import), to Bytes() of the
\* imported key (bytes) and to Verify of the proof (verify).
Deserialize(s, raw, checkValidity, eng) ==
    LET si == UnmarshalSerializedIdentity(raw)
        serialized == UnmarshalIdemix(si.msg.IdBytes)
        rawNymPublicKey == RawNymPublicKey(serialized.msg)
        NymPublicKey == NymPK(rawNymPublicKey, eng.bytes)
        imp == <<KeyImportCall(rawNymPublicKey)>>
        ou == UnmarshalOU(serialized.msg.Ou)
        role == UnmarshalRole(serialized.msg.Role)
        built == newIdentity(s, NymPublicKey, role.msg, ou.msg, serialized.msg.Proof)
        v == Validate(built.id, eng.verify)
    IN  IF si.err # NoErr
        THEN Fail(Wrap(si.err, "failed to unmarshal to msp.SerializedIdentity{}"), <<>>)
        ELSE IF serialized.err # NoErr
        THEN Fail(Wrap(serialized.err, "could not deserialize a SerializedIdemixIdentity"), <<>>)
        ELSE IF serialized.msg.NymX = None \/ serialized.msg.NymY = None
        THEN Fail(Errorf("unable to deserialize idemix identity: pseudonym is invalid"), <<>>)
        ELSE IF eng.import # NoErr
        THEN Fail(WithMessage(eng.import, "failed to import nym public key"), imp)
        ELSE IF ou.err # NoErr
        THEN Fail(Wrap(ou.err, "cannot deserialize the OU of the identity"), imp)
        ELSE IF role.err # NoErr
        THEN Fail(Wrap(role.err, "cannot deserialize the role of the identity"), imp)
        ELSE IF built.panic
        THEN Panic(imp)
        ELSE IF checkValidity /\ v.panic
        THEN Panic(imp \o v.calls)
        ELSE IF checkValidity /\ v.err # NoErr
        THEN Fail(Wrap(v.err, "cannot deserialize, invalid identity"), imp \o v.calls)
        ELSE [ret |-> Some([id |-> built.id, NymPublicKey |-> NymPublicKey,
                            si |-> si.msg, ou |-> ou.msg, role |-> role.msg]),
              err |-> NoErr, panic |-> FALSE,
              calls |-> IF checkValidity THEN imp \o v.calls ELSE imp]

----------------------------------------------------------------------------
(* signingIdentity (id.go) *)

\* A pseudonym secret key handle: handle numbers the derivation that made it.
NymSK(handle, raw, bytesErr) ==
    [kind |-> "nymSK", handle |-> handle, pub |-> NymPK(raw, bytesErr)]

\* The engine call signingIdentity.Sign makes.
SignCall(si, msg) ==
    [fn |-> "Sign", key |-> si.UserKey, msg |-> msg, Nym |-> si.NymKey,
     IssuerPK |-> si.identity.support.issuerPublicKey]

\* signingIdentity.Sign: signErr is the engine's error; the signature names the
\* pseudonym it was made under.
Sign(si, msg, signErr) ==
    IF signErr # NoErr
    THEN [sig |-> None, err |-> signErr]
    ELSE [sig |-> Some([by |-> si.NymKey.pub.raw, msg |-> msg]), err |-> NoErr]

\* Faulty variant of SerializeSigningIdentity: the enrollment id goes into the
\* envelope.
SerializeDisclosingEnrollmentId(si) ==
    LET r == Serialize(si.identity)
    IN  [r EXCEPT !.raw.Mspid = si.enrollmentId]

\* Serialize called on a signingIdentity: the method of the embedded identity.
SerializeSigningIdentity(si) == Serialize(si.identity)

GetPublicVersion(si) == si.identity

----------------------------------------------------------------------------
(* NewProvider *)

\* Faulty variant of NewProvider: without a signer block it returns a provider that
\* can only verify.
NewProviderVerificationOnly(conf1, sp, eng) ==
    LET conf == conf1[1].conf
    IN  IF conf1 = None
        THEN [ret |-> None, err |-> Errorf("setup error: nil conf reference")]
        ELSE IF eng.new # NoErr
        THEN [ret |-> None, err |-> Wrap(eng.new, "failed getting crypto provider")]
        ELSE IF conf1[1].form = "garbage"
        THEN [ret |-> None, err |-> Wrap(ProtoErr, "failed unmarshalling idemix provider config")]
        ELSE IF eng.ipk # NoErr
        THEN [ret |-> None, err |-> eng.ipk]
        ELSE IF eng.rpk # NoErr
        THEN [ret |-> None, err |-> WithMessage(eng.rpk, "failed to import revocation public key")]
        ELSE IF conf.Signer = None
        THEN [ret |-> Some([support |-> Support(conf.Name, 0), userKey |-> None,
                            conf |-> conf, sp |-> sp]),
              err |-> NoErr]
        ELSE IF eng.sk # NoErr
        THEN [ret |-> None, err |-> WithMessage(eng.sk, "failed importing signer secret key")]
        ELSE [ret |-> Some([support |-> Support(conf.Name, 0),
                            userKey |-> Some([kind |-> "userSK", sk |-> conf.Signer[1].Sk]),
                            conf |-> conf,
                            sp |-> sp]),
              err |-> NoErr]

\* conf1 is None (nil) or Some of the MSPConfig: form "garbage" when its Config
\* bytes do not unmarshal. eng: the errors of idemix.New (new) and of the three
\* KeyImport calls (ipk, rpk, sk).
NewProvider(conf1, sp, eng) ==
    LET conf == conf1[1].conf
    IN  IF conf1 = None
        THEN [ret |-> None, err |-> Errorf("setup error: nil conf reference")]
        ELSE IF eng.new # NoErr
        THEN [ret |-> None, err |-> Wrap(eng.new, "failed getting crypto provider")]
        ELSE IF conf1[1].form = "garbage"
        THEN [ret |-> None, err |-> Wrap(ProtoErr, "failed unmarshalling idemix provider config")]
        ELSE IF eng.ipk # NoErr
        THEN [ret |-> None, err |-> eng.ipk]
        ELSE IF eng.rpk # NoErr
        THEN [ret |-> None, err |-> WithMessage(eng.rpk, "failed to import revocation public key")]
        ELSE IF conf.Signer = None
        THEN [ret |-> None,
              err |-> Errorf("idemix provider setup as verification only provider (no key material found)")]
        ELSE IF eng.sk # NoErr
        THEN [ret |-> None, err |-> WithMessage(eng.sk, "failed importing signer secret key")]
        ELSE [ret |-> Some([support |-> Support(conf.Name, 0),
                            userKey |-> Some([kind |-> "userSK", sk |-> conf.Signer[1].Sk]),
                            conf |-> conf,
                            sp |-> sp]),
              err |-> NoErr]

----------------------------------------------------------------------------
(* AuditInfo *)

\* strconv.Itoa on the role codes.
Itoa(n) == <<"0", "1", "2", "3", "4", "5", "6", "7", "8", "9">>[n + 1]

\* The proof randomness the engine leaves in the signer options (opts.Info).
SignatureInfo(proof) == [of |-> proof]

\* AuditInfo.Bytes: the encoding and the error of the encoder.
AuditInfoBytes(ai, encErr) ==
    IF encErr # NoErr
    THEN [raw |-> None, err |-> encErr]
    ELSE [raw |-> Some([form |-> "canonical",
                        IdemixSignatureInfo |-> ai.IdemixSignatureInfo,
                        Attributes |-> ai.Attributes]),
          err |-> NoErr]

\* AuditInfo.FromBytes.
AuditInfoFromBytes(b) ==
    IF b.form = "garbage"
    THEN [ai |-> [IdemixSignatureInfo |-> SignatureInfo(<<>>), Attributes |-> <<>>],
          err |-> <<"invalid character">>]
    ELSE [ai |-> [IdemixSignatureInfo |-> b.IdemixSignatureInfo, Attributes |-> b.Attributes],
          err |-> NoErr]

\* AuditInfo.EnrollmentID: the third attribute.
EnrollmentID(ai) == ai.Attributes[3]

----------------------------------------------------------------------------
(* provider.Identity and provider.SignerIdentity *)

KeyDerivCall(p, temporary) ==
    [fn |-> "KeyDeriv", key |-> p.userKey, Temporary |-> temporary,
     IssuerPK |-> p.support.issuerPublicKey]

\* Role and OU of the identities a provider issues.
ProviderRole(p) ==
    [MspIdentifier |-> p.support.name,
     Role |-> IF checkRole(p.conf.Signer[1].Role, ADMIN) THEN MSPRole_ADMIN ELSE MSPRole_MEMBER]

ProviderOU(p) ==
    [MspIdentifier |-> p.support.name,
     OrganizationalUnitIdentifier |-> p.conf.Signer[1].OrganizationalUnitIdentifier,
     CertifiersIdentifier |-> IssuerSKI]

\* The engine call that checks the held credential.
VerifyCredentialCall(p) ==
    [fn |-> "Verify", key |-> p.userKey, sig |-> p.conf.Signer[1].Cred, msg |-> <<>>,
     IssuerPK |-> p.support.issuerPublicKey,
     Attributes |-> << [Type |-> "Bytes", Value |-> <<p.conf.Signer[1].OrganizationalUnitIdentifier>>],
                       [Type |-> "Int", Value |-> <<getIdemixRoleFromMSPRole(ProviderRole(p))>>],
                       [Type |-> "Bytes", Value |-> <<p.conf.Signer[1].EnrollmentId>>],
                       [Type |-> "Hidden", Value |-> <<>>] >>]

\* The engine call that makes the proof of an identity.
SignProofCall(p, nymKey) ==
    [fn |-> "Sign", key |-> p.userKey, msg |-> <<>>, Nym |-> nymKey,
     IssuerPK |-> p.support.issuerPublicKey,
     Credential |-> p.conf.Signer[1].Cred,
     Attributes |-> << [Type |-> "Bytes", Value |-> <<>>],
                       [Type |-> "Int", Value |-> <<>>],
                       [Type |-> "Hidden", Value |-> <<>>],
                       [Type |-> "Hidden", Value |-> <<>>] >>,
     RhIndex |-> rhIndex,
     CRI |-> p.conf.Signer[1].CredentialRevocationInformation]

RegisterSignerCall(raw) == [fn |-> "RegisterSigner", identity |-> raw]

\* What Identity and SignerIdentity return besides the value: err, whether the
\* call panicked, the engine and registry calls made, the SKIs the engine
\* persisted and the identities the registry took.
Out(ret, info, err, panic, calls, stored, registered) ==
    [ret |-> ret, info |-> info, err |-> err, panic |-> panic, calls |-> calls,
     stored |-> stored, registered |-> registered]

\* Faulty variant of Identity: the error of RegisterSigner is not looked at.
IdentityRegistrationUnchecked(p, n, eng) ==
    LET nymKey == NymSK(n + 1, eng.raw, eng.bytes)
        NymPublicKey == nymKey.pub
        role == ProviderRole(p)
        ou == ProviderOU(p)
        enrollmentID == p.conf.Signer[1].EnrollmentId
        c1 == <<KeyDerivCall(p, FALSE)>>
        c2 == c1 \o <<VerifyCredentialCall(p)>>
        c3 == c2 \o <<SignProofCall(p, nymKey)>>
        kept == {SKI(NymPublicKey)}
        built == newIdentity(p.support, NymPublicKey, role, ou, eng.proof)
        sID == [identity |-> built.id, Cred |-> p.conf.Signer[1].Cred,
                UserKey |-> p.userKey, NymKey |-> nymKey, enrollmentId |-> enrollmentID]
        raw == Serialize(sID.identity)
        c4 == c3 \o <<RegisterSignerCall(raw.raw)>>
        auditInfo == [IdemixSignatureInfo |-> SignatureInfo(eng.proof),
                      Attributes |-> << p.conf.Signer[1].OrganizationalUnitIdentifier,
                                        Itoa(getIdemixRoleFromMSPRole(role)),
                                        enrollmentID >>]
        infoRaw == AuditInfoBytes(auditInfo, eng.audit)
    IN  IF eng.deriv # NoErr
        THEN Out(None, None, WithMessage(eng.deriv, "failed deriving nym"), FALSE, c1, {}, {})
        ELSE IF eng.pub # NoErr
        THEN Out(None, None, Wrap(eng.pub, "failed getting public nym key"), FALSE, c1, kept, {})
        ELSE IF eng.cred.err # NoErr \/ ~eng.cred.valid
        THEN Out(None, None, WithMessage(eng.cred.err, "Credential is not cryptographically valid"),
                 FALSE, c2, kept, {})
        ELSE IF eng.sign # NoErr
        THEN Out(None, None, WithMessage(eng.sign, "Failed to setup cryptographic proof of identity"),
                 FALSE, c3, kept, {})
        ELSE IF built.panic
        THEN Out(None, None, NoErr, TRUE, c3, kept, {})
        ELSE IF raw.err # NoErr
        THEN Out(None, None, raw.err, FALSE, c3, kept, {})
        ELSE IF ~p.sp.signerService
        THEN Out(None, None, NoErr, TRUE, c3, kept, {})
        ELSE IF infoRaw.err # NoErr
        THEN Out(None, None, infoRaw.err, FALSE, c4, kept, {raw.raw})
        ELSE Out(Some(raw.raw), infoRaw.raw, NoErr, FALSE, c4, kept, {raw.raw})

\* eng: the engine's answers, in call order: KeyDeriv (deriv; raw and bytes are
\* the derived public key and what its Bytes() does), PublicKey (pub), Verify of
\* the credential (cred), Sign (sign, proof), and the answers of RegisterSigner
\* (reg) and of the audit info encoder (audit). n: the keys derived before.
Identity(p, n, eng) ==
    LET nymKey == NymSK(n + 1, eng.raw, eng.bytes)
        NymPublicKey == nymKey.pub
        role == ProviderRole(p)
        ou == ProviderOU(p)
        enrollmentID == p.conf.Signer[1].EnrollmentId
        c1 == <<KeyDerivCall(p, FALSE)>>
        c2 == c1 \o <<VerifyCredentialCall(p)>>
        c3 == c2 \o <<SignProofCall(p, nymKey)>>
        kept == {SKI(NymPublicKey)}
        built == newIdentity(p.support, NymPublicKey, role, ou, eng.proof)
        sID == [identity |-> built.id, Cred |-> p.conf.Signer[1].Cred,
                UserKey |-> p.userKey, NymKey |-> nymKey, enrollmentId |-> enrollmentID]
        raw == Serialize(sID.identity)
        c4 == c3 \o <<RegisterSignerCall(raw.raw)>>
        auditInfo == [IdemixSignatureInfo |-> SignatureInfo(eng.proof),
                      Attributes |-> << p.conf.Signer[1].OrganizationalUnitIdentifier,
                                        Itoa(getIdemixRoleFromMSPRole(role)),
                                        enrollmentID >>]
        infoRaw == AuditInfoBytes(auditInfo, eng.audit)
    IN  IF eng.deriv # NoErr
        THEN Out(None, None, WithMessage(eng.deriv, "failed deriving nym"), FALSE, c1, {}, {})
        ELSE IF eng.pub # NoErr
        THEN Out(None, None, Wrap(eng.pub, "failed getting public nym key"), FALSE, c1, kept, {})
        ELSE IF eng.cred.err # NoErr \/ ~eng.cred.valid
        THEN Out(None, None, WithMessage(eng.cred.err, "Credential is not cryptographically valid"),
                 FALSE, c2, kept, {})
        ELSE IF eng.sign # NoErr
        THEN Out(None, None, WithMessage(eng.sign, "Failed to setup cryptographic proof of identity"),
                 FALSE, c3, kept, {})
        ELSE IF built.panic
        THEN Out(None, None, NoErr, TRUE, c3, kept, {})
        ELSE IF raw.err # NoErr
        THEN Out(None, None, raw.err, FALSE, c3, kept, {})
        ELSE IF ~p.sp.signerService
        THEN Out(None, None, NoErr, TRUE, c3, kept, {})
        ELSE IF eng.reg # NoErr
        THEN Out(None, None, eng.reg, FALSE, c4, kept, {})
        ELSE IF infoRaw.err # NoErr
        THEN Out(None, None, infoRaw.err, FALSE, c4, kept, {raw.raw})
        ELSE Out(Some(raw.raw), infoRaw.raw, NoErr, FALSE, c4, kept, {raw.raw})

\* Faulty variant of SignerIdentity: it issues the way Identity does, with a
\* persisted key and a registration, and drops the audit info.
SignerIdentityAsIdentity(p, n, eng) ==
    [Identity(p, n, eng) EXCEPT !.info = None]

\* SignerIdentity: the key is derived as temporary, so the engine stores
\* nothing; there is no registration and no audit info.

SignerIdentity(p, n, eng) ==
    LET nymKey == NymSK(n + 1, eng.raw, eng.bytes)
        NymPublicKey == nymKey.pub
        role == ProviderRole(p)
        ou == ProviderOU(p)
        enrollmentID == p.conf.Signer[1].EnrollmentId
        c1 == <<KeyDerivCall(p, TRUE)>>
        c2 == c1 \o <<VerifyCredentialCall(p)>>
        c3 == c2 \o <<SignProofCall(p, nymKey)>>
        built == newIdentity(p.support, NymPublicKey, role, ou, eng.proof)
    IN  IF eng.deriv # NoErr
        THEN Out(None, None, WithMessage(eng.deriv, "failed deriving nym"), FALSE, c1, {}, {})
        ELSE IF eng.pub # NoErr
        THEN Out(None, None, Wrap(eng.pub, "failed getting public nym key"), FALSE, c1, {}, {})
        ELSE IF eng.cred.err # NoErr \/ ~eng.cred.valid
        THEN Out(None, None, WithMessage(eng.cred.err, "Credential is not cryptographically valid"),
                 FALSE, c2, {}, {})
        ELSE IF eng.sign # NoErr
        THEN Out(None, None, WithMessage(eng.sign, "Failed to setup cryptographic proof of identity"),
                 FALSE, c3, {}, {})
        ELSE IF built.panic
        THEN Out(None, None, NoErr, TRUE, c3, {}, {})
        ELSE Out(Some([identity |-> built.id, Cred |-> p.conf.Signer[1].Cred,
                       UserKey |-> p.userKey, NymKey |-> nymKey,
                       enrollmentId |-> enrollmentID]),
                 None, NoErr, FALSE, c3, {}, {})

----------------------------------------------------------------------------
(* The provider's deserialization entry points *)

DeserializeVerifier(p, raw, eng) ==
    LET r == Deserialize(p.support, raw, TRUE, eng)
    IN  IF r.panic THEN Panic(r.calls)
        ELSE IF r.err # NoErr THEN Fail(r.err, r.calls)
        ELSE [ret |-> Some(r.ret[1].id), err |-> NoErr, panic |-> FALSE, calls |-> r.calls]

\* csp.GetKey: the pseudonym secret key stored under ski, if any.
GetKeyCall(ski) == [fn |-> "GetKey", ski |-> ski]
GetKey(store, ski, getErr) ==
    IF ski \notin store THEN [key |-> None, err |-> <<"key not found">>]
    ELSE IF getErr # NoErr THEN [key |-> None, err |-> getErr]
    ELSE [key |-> Some(NymSK(0, ski, NoErr)), err |-> NoErr]

ProbeMsg == <<"hello world!!!">>

\* Faulty variant of DeserializeSigner: the error of GetKey is not looked at.
DeserializeSignerLookupUnchecked(p, store, raw, eng) ==
    LET r == Deserialize(p.support, raw, TRUE, eng)
        d == r.ret[1]
        got == GetKey(store, SKI(d.NymPublicKey), eng.get)
        c1 == r.calls \o <<GetKeyCall(SKI(d.NymPublicKey))>>
        si == [identity |-> d.id, Cred |-> p.conf.Signer[1].Cred, UserKey |-> p.userKey,
               NymKey |-> NymSK(0, SKI(d.NymPublicKey), NoErr), enrollmentId |-> p.conf.Signer[1].EnrollmentId]
        sigma == Sign(si, ProbeMsg, eng.sign)
        c2 == c1 \o <<SignCall(si, ProbeMsg)>>
        verr == Verify(si.identity, ProbeMsg, sigma.sig, eng.probe)
        c3 == c2 \o <<VerifyCall(si.identity, ProbeMsg, sigma.sig)>>
    IN  IF r.panic THEN Panic(r.calls)
        ELSE IF r.err # NoErr THEN Fail(r.err, r.calls)
        ELSE IF sigma.err # NoErr
        THEN Fail(Wrap(sigma.err, "failed generating verification signature"), c2)
        ELSE IF verr # NoErr
        THEN Fail(Wrap(verr, "failed verifying verification signature"), c3)
        ELSE [ret |-> Some(si), err |-> NoErr, panic |-> FALSE, calls |-> c3]

\* eng adds to Deserialize's answers those of GetKey (get), of Sign (sign) and
\* of Verify on the probe signature (probe).
DeserializeSigner(p, store, raw, eng) ==
    LET r == Deserialize(p.support, raw, TRUE, eng)
        d == r.ret[1]
        got == GetKey(store, SKI(d.NymPublicKey), eng.get)
        c1 == r.calls \o <<GetKeyCall(SKI(d.NymPublicKey))>>
        si == [identity |-> d.id, Cred |-> p.conf.Signer[1].Cred, UserKey |-> p.userKey,
               NymKey |-> got.key[1], enrollmentId |-> p.conf.Signer[1].EnrollmentId]
        sigma == Sign(si, ProbeMsg, eng.sign)
        c2 == c1 \o <<SignCall(si, ProbeMsg)>>
        verr == Verify(si.identity, ProbeMsg, sigma.sig, eng.probe)
        c3 == c2 \o <<VerifyCall(si.identity, ProbeMsg, sigma.sig)>>
    IN  IF r.panic THEN Panic(r.calls)
        ELSE IF r.err # NoErr THEN Fail(r.err, r.calls)
        ELSE IF got.err # NoErr
        THEN Fail(Wrap(got.err, "cannot find nym secret key"), c1)
        ELSE IF sigma.err # NoErr
        THEN Fail(Wrap(sigma.err, "failed generating verification signature"), c2)
        ELSE IF verr # NoErr
        THEN Fail(Wrap(verr, "failed verifying verification signature"), c3)
        ELSE [ret |-> Some(si), err |-> NoErr, panic |-> FALSE, calls |-> c3]

RoleString(r) == IF r = MSPRole_ADMIN THEN "ADMIN" ELSE "MEMBER"

\* view.Identity(raw).UniqueID(): a digest of the bytes.
UniqueID(raw) == [digestOf |-> raw]

\* The calls Info makes on the AuditInfo it is given.
FromBytesCall(b) == [fn |-> "FromBytes", raw |-> b]
MatchCall(ai, raw) == [fn |-> "Match", ai |-> ai, identity |-> raw]

\* Faulty variant of Info: the error of AuditInfo.Match is not looked at.
InfoMatchUnchecked(p, raw, auditInfo, eng) ==
    LET r == Deserialize(p.support, raw, TRUE, eng)
        d == r.ret[1]
        ai == AuditInfoFromBytes(auditInfo[1])
        eid == IF auditInfo = None THEN "" ELSE EnrollmentID(ai.ai)
        c1 == r.calls \o <<FromBytesCall(auditInfo[1])>>
    IN  IF r.panic THEN Panic(r.calls)
        ELSE IF r.err # NoErr THEN Fail(r.err, r.calls)
        ELSE IF auditInfo # None /\ ai.err # NoErr THEN Fail(ai.err, c1)
        ELSE [ret |-> Some([eid |-> eid, uid |-> UniqueID(raw), mspid |-> d.si.Mspid,
                            ou |-> d.ou.OrganizationalUnitIdentifier,
                            role |-> RoleString(d.role.Role)]),
              err |-> NoErr, panic |-> FALSE, calls |-> r.calls]

\* Faulty variant of Info: without audit bytes the enrollment id is taken from
\* the provider's own configuration.
InfoEnrollmentFromProvider(p, raw, auditInfo, eng) ==
    LET r == Deserialize(p.support, raw, TRUE, eng)
        d == r.ret[1]
        ai == AuditInfoFromBytes(auditInfo[1])
        eid == IF auditInfo = None THEN p.conf.Signer[1].EnrollmentId
               ELSE EnrollmentID(ai.ai)
        c1 == r.calls \o <<FromBytesCall(auditInfo[1])>>
        c2 == c1 \o <<MatchCall(ai.ai, raw)>>
    IN  IF r.panic THEN Panic(r.calls)
        ELSE IF r.err # NoErr THEN Fail(r.err, r.calls)
        ELSE IF auditInfo # None /\ ai.err # NoErr THEN Fail(ai.err, c1)
        ELSE IF auditInfo # None /\ eng.match # NoErr THEN Fail(eng.match, c2)
        ELSE [ret |-> Some([eid |-> eid, uid |-> UniqueID(raw), mspid |-> d.si.Mspid,
                            ou |-> d.ou.OrganizationalUnitIdentifier,
                            role |-> RoleString(d.role.Role)]),
              err |-> NoErr, panic |-> FALSE,
              calls |-> IF auditInfo = None THEN r.calls ELSE c2]

\* auditInfo is None (no bytes) or Some of the audit bytes; eng.match is what
\* AuditInfo.Match returns. The calls made include those on the AuditInfo.
Info(p, raw, auditInfo, eng) ==
    LET r == Deserialize(p.support, raw, TRUE, eng)
        d == r.ret[1]
        ai == AuditInfoFromBytes(auditInfo[1])
        eid == IF auditInfo = None THEN "" ELSE EnrollmentID(ai.ai)
        c1 == r.calls \o <<FromBytesCall(auditInfo[1])>>
        c2 == c1 \o <<MatchCall(ai.ai, raw)>>
    IN  IF r.panic THEN Panic(r.calls)
        ELSE IF r.err # NoErr THEN Fail(r.err, r.calls)
        ELSE IF auditInfo # None /\ ai.err # NoErr THEN Fail(ai.err, c1)
        ELSE IF auditInfo # None /\ eng.match # NoErr THEN Fail(eng.match, c2)
        ELSE [ret |-> Some([eid |-> eid, uid |-> UniqueID(raw), mspid |-> d.si.Mspid,
                            ou |-> d.ou.OrganizationalUnitIdentifier,
                            role |-> RoleString(d.role.Role)]),
              err |-> NoErr, panic |-> FALSE,
              calls |-> IF auditInfo = None THEN r.calls ELSE c2]

\* Faulty variant of DeserializeSigningIdentity: the parsed identity is not
\* validated.
DeserializeSigningIdentityUnvalidated(p, store, raw, eng) ==
    LET r == Deserialize(p.support, raw, FALSE, eng)
        d == r.ret[1]
        got == GetKey(store, SKI(d.NymPublicKey), eng.get)
        c1 == r.calls \o <<GetKeyCall(SKI(d.NymPublicKey))>>
    IN  IF r.panic THEN Panic(r.calls)
        ELSE IF r.err # NoErr THEN Fail(r.err, r.calls)
        ELSE IF got.err # NoErr
        THEN Fail(Wrap(got.err, "cannot find nym secret key"), c1)
        ELSE [ret |-> Some([identity |-> d.id, Cred |-> p.conf.Signer[1].Cred,
                            UserKey |-> p.userKey, NymKey |-> got.key[1],
                            enrollmentId |-> p.conf.Signer[1].EnrollmentId]),
              err |-> NoErr, panic |-> FALSE, calls |-> c1]

\* The code repeats the steps of support.Deserialize(raw, true) and then looks
\* up the pseudonym secret key.

DeserializeSigningIdentity(p, store, raw, eng) ==
    LET si == UnmarshalSerializedIdentity(raw)
        serialized == UnmarshalIdemix(si.msg.IdBytes)
        rawNymPublicKey == RawNymPublicKey(serialized.msg)
        NymPublicKey == NymPK(rawNymPublicKey, eng.bytes)
        imp == <<KeyImportCall(rawNymPublicKey)>>
        ou == UnmarshalOU(serialized.msg.Ou)
        role == UnmarshalRole(serialized.msg.Role)
        built == newIdentity(p.support, NymPublicKey, role.msg, ou.msg, serialized.msg.Proof)
        v == Validate(built.id, eng.verify)
        got == GetKey(store, SKI(NymPublicKey), eng.get)
        c1 == imp \o v.calls \o <<GetKeyCall(SKI(NymPublicKey))>>
    IN  IF si.err # NoErr
        THEN Fail(Wrap(si.err, "failed to unmarshal to msp.SerializedIdentity{}"), <<>>)
        ELSE IF serialized.err # NoErr
        THEN Fail(Wrap(serialized.err, "could not deserialize a SerializedIdemixIdentity"), <<>>)
        ELSE IF serialized.msg.NymX = None \/ serialized.msg.NymY = None
        THEN Fail(Errorf("unable to deserialize idemix identity: pseudonym is invalid"), <<>>)
        ELSE IF eng.import # NoErr
        THEN Fail(WithMessage(eng.import, "failed to import nym public key"), imp)
        ELSE IF ou.err # NoErr
        THEN Fail(Wrap(ou.err, "cannot deserialize the OU of the identity"), imp)
        ELSE IF role.err # NoErr
        THEN Fail(Wrap(role.err, "cannot deserialize the role of the identity"), imp)
        ELSE IF built.panic
        THEN Panic(imp)
        ELSE IF v.panic
        THEN Panic(imp \o v.calls)
        ELSE IF v.err # NoErr
        THEN Fail(Wrap(v.err, "cannot deserialize, invalid identity"), imp \o v.calls)
        ELSE IF got.err # NoErr
        THEN Fail(Wrap(got.err, "cannot find nym secret key"), c1)
        ELSE [ret |-> Some([identity |-> built.id, Cred |-> p.conf.Signer[1].Cred,
                            UserKey |-> p.userKey, NymKey |-> got.key[1],
                            enrollmentId |-> p.conf.Signer[1].EnrollmentId]),
              err |-> NoErr, panic |-> FALSE, calls |-> c1]

----------------------------------------------------------------------------
(* Inputs *)

Idle == [op |-> "idle"]

OUOf(name, ouId) ==
    [MspIdentifier |-> name, OrganizationalUnitIdentifier |-> ouId,
     CertifiersIdentifier |-> IssuerSKI]
RoleOf(name, r) == [MspIdentifier |-> name, Role |-> r]

WithForm(w, form) == [w EXCEPT !.form = form]

GarbageOU == WithForm(EmptyOUWire, "garbage")
GarbageRole == WithForm(EmptyRoleWire, "garbage")
GarbageWire == WithForm(EmptyWire, "garbage")

\* The bytes of an envelope with the given fields.
Wire(form, name, innerForm, x, y, ouw, rolew, proof) ==
    [form |-> form, Mspid |-> name,
     IdBytes |-> [form |-> innerForm, NymX |-> x, NymY |-> y, Ou |-> ouw,
                  Role |-> rolew, Proof |-> proof]]

\* Every division of every key between nym_x and nym_y.
Splits ==
    UNION {{<<SubSeq(k, 1, i), SubSeq(k, i + 1, Len(k))>> : i \in 0..Len(k)} : k \in Keys}

\* Canonical envelopes, the pseudonym key divided in every way.
SplitRaws ==
    {Wire("canonical", nr[1], "canonical", xy[1], xy[2],
          MarshalOU(OUOf(nr[1], "manufacturing")), MarshalRole(RoleOf(nr[1], nr[2])), <<7>>) :
        nr \in Names \X {MSPRole_MEMBER, MSPRole_ADMIN}, xy \in Splits}

\* The encodings of the OU and of the role of an identity of authority n.
OUWires(n) ==
    {WithForm(MarshalOU(OUOf(n, "manufacturing")), g) : g \in {"canonical", "noncanonical"}}
    \cup {GarbageOU, EmptyOUWire}
RoleWires(n) ==
    {WithForm(MarshalRole(RoleOf(n, MSPRole_ADMIN)), g) : g \in {"canonical", "noncanonical"}}
    \cup {GarbageRole}

\* One identity in every encoding of its envelope, inner record, OU and role.
FormRaws ==
    {GarbageWire} \cup
    {Wire(f, n, "garbage", <<>>, <<>>, EmptyOUWire, EmptyRoleWire, <<>>) :
        f \in {"canonical", "noncanonical"}, n \in Names} \cup
    UNION {{Wire(f[1], n, f[2], <<1>>, <<2>>, ouw, rolew, proof) :
                f \in {"canonical", "noncanonical"} \X {"canonical", "noncanonical"},
                ouw \in OUWires(n), rolew \in RoleWires(n), proof \in {<<>>, <<7>>}} :
           n \in Names}

CodecRaws == SplitRaws \cup FormRaws

Supports == {Support(n, e) : n \in Names, e \in {0, 1}}

\* The engine's answers to one Deserialize: answers to calls that are not
\* reached are left at their defaults.
Valid == [valid |-> TRUE, err |-> NoErr]
DeserializeAnswers ==
    {[import |-> EngineErr, bytes |-> NoErr, verify |-> Valid],
     [import |-> NoErr, bytes |-> EngineErr, verify |-> Valid]}
    \cup {[import |-> NoErr, bytes |-> NoErr, verify |-> a] : a \in VerifyAnswers}

----------------------------------------------------------------------------
(* The identity and support operations, called on their own *)

\* Whether the last call left an identity (newIdentity or Deserialize).
HasIdentity(l) ==
    \/ l.op = "newIdentity" /\ ~l.out.panic
    \/ l.op = "Deserialize" /\ l.out.ret # None
IdentityOf(l) ==
    IF l.op = "newIdentity" THEN l.out.id ELSE l.out.ret[1].id

CodecNewIdentity ==
    /\ last = Idle
    /\ \E s \in Supports, k \in Keys, be \in ErrAnswers,
          r \in {MSPRole_MEMBER, MSPRole_ADMIN}, proof \in Proofs :
          last' = [op |-> "newIdentity",
                   in |-> [support |-> s, key |-> k],
                   out |-> newIdentity(s, NymPK(k, be), RoleOf(s.name, r),
                                       OUOf(s.name, "manufacturing"), proof)]
    /\ UNCHANGED <<prov, keyStore, registry, nDerived, notIdentity>>

CodecDeserialize ==
    /\ last = Idle
    /\ \E s \in Supports, raw \in CodecRaws, check \in BOOLEAN, eng \in DeserializeAnswers :
          last' = [op |-> "Deserialize",
                   in |-> [support |-> s, raw |-> raw, checkValidity |-> check, eng |-> eng],
                   prev |-> Idle,
                   out |-> Deserialize(s, raw, check, eng)]
    /\ UNCHANGED <<prov, keyStore, registry, nDerived, notIdentity>>

\* Serialize called on the identity the last call returned.
CodecSerialize ==
    /\ HasIdentity(last)
    /\ last' = [op |-> "Serialize",
                in |-> [id |-> IdentityOf(last)],
                prev |-> last,
                out |-> Serialize(IdentityOf(last))]
    /\ UNCHANGED <<prov, keyStore, registry, nDerived, notIdentity>>

\* Deserialize called on the bytes Serialize returned for a built identity.
CodecDeserializeSerialized ==
    /\ last.op = "Serialize" /\ last.prev.op = "newIdentity" /\ last.out.err = NoErr
    /\ \E s \in Supports, check \in BOOLEAN, eng \in DeserializeAnswers :
          last' = [op |-> "Deserialize",
                   in |-> [support |-> s, raw |-> last.out.raw, checkValidity |-> check,
                           eng |-> eng],
                   prev |-> last,
                   out |-> Deserialize(s, last.out.raw, check, eng)]
    /\ UNCHANGED <<prov, keyStore, registry, nDerived, notIdentity>>

\* Validate called on the identity the last call returned.
CodecValidate ==
    /\ HasIdentity(last)
    /\ \E ans \in VerifyAnswers :
          last' = [op |-> "Validate",
                   in |-> [id |-> IdentityOf(last), ans |-> ans],
                   prev |-> last,
                   out |-> Validate(IdentityOf(last), ans)]
    /\ UNCHANGED <<prov, keyStore, registry, nDerived, notIdentity>>

Msgs == {<<"m1">>, <<"m2">>}

\* Verify called on the identity the last call returned, for a signature some
\* signing identity made.
CodecVerify ==
    /\ HasIdentity(last) /\ last.op = "newIdentity"
    /\ \E k \in {q \in Keys : Len(q) = 2}, msg \in Msgs, signed \in Msgs, ans \in VerifyAnswers :
          LET id == IdentityOf(last)
              si == [identity |-> newIdentity(id.support, NymPK(k, NoErr), id.Role, id.OU,
                                              id.associationProof).id,
                     Cred |-> <<>>, UserKey |-> Some([kind |-> "userSK", sk |-> <<>>]),
                     NymKey |-> NymSK(1, k, NoErr), enrollmentId |-> ""]
              sigma == Sign(si, signed, NoErr)
          IN  last' = [op |-> "Verify",
                       in |-> [id |-> id, msg |-> msg, sig |-> sigma.sig[1], ans |-> ans],
                       call |-> VerifyCall(id, msg, sigma.sig[1]),
                       out |-> [err |-> Verify(id, msg, sigma.sig[1], ans)]]
    /\ UNCHANGED <<prov, keyStore, registry, nDerived, notIdentity>>

\* GetOrganizationalUnits called on the identity the last call built.
CodecGetOrganizationalUnits ==
    /\ HasIdentity(last) /\ last.op = "newIdentity"
    /\ \E be \in ErrAnswers :
          last' = [op |-> "GetOrganizationalUnits",
                   in |-> [id |-> IdentityOf(last), bytesErr |-> be],
                   out |-> [ous |-> GetOrganizationalUnits(IdentityOf(last), be),
                            panic |-> FALSE]]
    /\ UNCHANGED <<prov, keyStore, registry, nDerived, notIdentity>>

\* The classifications of the principals SatisfiesPrincipal is given.
Principals == {"ROLE", "ORGANIZATION_UNIT", "IDENTITY", "ANONYMITY", "COMBINED"}

\* SatisfiesPrincipal called on the identity the last call built.
CodecSatisfiesPrincipal ==
    /\ HasIdentity(last) /\ last.op = "newIdentity"
    /\ \E principal \in Principals :
          last' = [op |-> "SatisfiesPrincipal",
                   in |-> [id |-> IdentityOf(last), principal |-> principal],
                   out |-> SatisfiesPrincipal(IdentityOf(last), principal)]
    /\ UNCHANGED <<prov, keyStore, registry, nDerived, notIdentity>>

\* The caller takes the result; a panic ends the process.
Return ==
    /\ last # Idle
    /\ ~(last.op # "Serialize" /\ last.op # "Verify" /\ last.op # "NewProvider" /\ last.out.panic)
    /\ last' = Idle
    /\ UNCHANGED <<prov, keyStore, registry, nDerived, notIdentity>>

----------------------------------------------------------------------------
(* The provider's operations *)

SignerConf(role) ==
    [Sk |-> <<5>>, Cred |-> <<6>>, OrganizationalUnitIdentifier |-> "manufacturing",
     Role |-> role, EnrollmentId |-> "alice", CredentialRevocationInformation |-> <<4>>]

Conf(name, signer) ==
    [Name |-> name, Ipk |-> <<3>>, RevocationPk |-> <<3>>, Signer |-> signer]

\* The configurations NewProvider is given: nil, one whose Config bytes do not
\* unmarshal, and, per authority, one without and two with a signer block.
Conf1s ==
    {None, Some([form |-> "garbage", conf |-> Conf("", None)])}
    \cup {Some([form |-> "canonical", conf |-> Conf(n, None)]) : n \in Names}
    \cup {Some([form |-> "canonical", conf |-> Conf(n, Some(SignerConf(r)))]) :
            n \in Names, r \in {MEMBER, ADMIN}}

\* The service provider: whether a signer service is registered with it.
SPs == {[signerService |-> b] : b \in BOOLEAN}

AllOK == [new |-> NoErr, ipk |-> NoErr, rpk |-> NoErr, sk |-> NoErr]
NewProviderAnswers ==
    {AllOK, [AllOK EXCEPT !.new = EngineErr], [AllOK EXCEPT !.ipk = EngineErr],
     [AllOK EXCEPT !.rpk = EngineErr], [AllOK EXCEPT !.sk = EngineErr]}

NewProviderCall ==
    /\ last = Idle
    /\ \E conf1 \in Conf1s, sp \in SPs, eng \in NewProviderAnswers :
          LET r == NewProvider(conf1, sp, eng)
          IN  /\ last' = [op |-> "NewProvider",
                          in |-> [conf1 |-> conf1, sp |-> sp, eng |-> eng],
                          out |-> r]
              /\ prov' = IF r.err = NoErr THEN r.ret ELSE prov
    /\ UNCHANGED <<keyStore, registry, nDerived, notIdentity>>

\* The pseudonym public keys the engine derives.
DerivKeys == {<<1, 2>>, <<2, 1>>}

IssueOK(k) ==
    [deriv |-> NoErr, raw |-> k, bytes |-> NoErr, pub |-> NoErr, cred |-> Valid,
     sign |-> NoErr, proof |-> <<7>>, reg |-> NoErr, audit |-> NoErr]

\* The answers to one Identity or SignerIdentity: all good, or one call failing.
IssueAnswers ==
    UNION {{IssueOK(k),
            [IssueOK(k) EXCEPT !.deriv = EngineErr],
            [IssueOK(k) EXCEPT !.pub = EngineErr],
            [IssueOK(k) EXCEPT !.sign = EngineErr],
            [IssueOK(k) EXCEPT !.bytes = EngineErr],
            [IssueOK(k) EXCEPT !.reg = EngineErr],
            [IssueOK(k) EXCEPT !.audit = EngineErr]}
           \cup {[IssueOK(k) EXCEPT !.cred = a] : a \in VerifyAnswers} : k \in DerivKeys}

IdentityCall ==
    /\ last = Idle
    /\ prov # None
    /\ nDerived < MaxIds
    /\ \E eng \in IssueAnswers :
          LET r == Identity(prov[1], nDerived, eng)
          IN  /\ last' = [op |-> "Identity", in |-> [eng |-> eng], out |-> r,
                          before |-> [keyStore |-> keyStore, registry |-> registry]]
              /\ keyStore' = keyStore \cup r.stored
              /\ registry' = registry \cup r.registered
              /\ nDerived' = IF eng.deriv = NoErr THEN nDerived + 1 ELSE nDerived
    /\ UNCHANGED <<prov, notIdentity>>

SignerIdentityCall ==
    /\ last = Idle
    /\ prov # None
    /\ nDerived < MaxIds
    /\ \E eng \in IssueAnswers :
          LET r == SignerIdentity(prov[1], nDerived, eng)
          IN  /\ last' = [op |-> "SignerIdentity", in |-> [eng |-> eng], out |-> r,
                          before |-> [keyStore |-> keyStore, registry |-> registry]]
              /\ keyStore' = keyStore \cup r.stored
              /\ registry' = registry \cup r.registered
              /\ nDerived' = IF eng.deriv = NoErr THEN nDerived + 1 ELSE nDerived
    /\ UNCHANGED <<prov, notIdentity>>

\* The serialized identities the entry points are given: those of both
\* authorities under the keys this node derives and under a key it does not
\* hold, and malformed ones.
SpecRaws ==
    {Wire("canonical", nr[1], "canonical", SplitX(k), SplitY(k),
          MarshalOU(OUOf(nr[1], "manufacturing")), MarshalRole(RoleOf(nr[1], nr[2])), <<7>>) :
        nr \in Names \X {MSPRole_MEMBER, MSPRole_ADMIN}, k \in DerivKeys \cup {<<2, 2>>}}
    \cup {GarbageWire}
    \cup {Wire("canonical", n, "canonical", <<>>, <<1, 2>>, EmptyOUWire, EmptyRoleWire, <<7>>) :
            n \in Names}
    \cup {Wire("canonical", n, "canonical", <<1>>, <<2>>, GarbageOU, EmptyRoleWire, <<7>>) :
            n \in Names}

DeserializeCall ==
    /\ last = Idle
    /\ prov # None
    /\ \E raw \in SpecRaws, check \in BOOLEAN, eng \in DeserializeAnswers :
          last' = [op |-> "Deserialize",
                   in |-> [support |-> prov[1].support, raw |-> raw,
                           checkValidity |-> check, eng |-> eng],
                   prev |-> Idle,
                   before |-> [keyStore |-> keyStore],
                   out |-> Deserialize(prov[1].support, raw, check, eng)]
    /\ UNCHANGED <<prov, keyStore, registry, nDerived, notIdentity>>

DeserializeVerifierCall ==
    /\ last = Idle
    /\ prov # None
    /\ \E raw \in SpecRaws, eng \in DeserializeAnswers :
          last' = [op |-> "DeserializeVerifier",
                   in |-> [support |-> prov[1].support, raw |-> raw, eng |-> eng],
                   out |-> DeserializeVerifier(prov[1], raw, eng)]
    /\ UNCHANGED <<prov, keyStore, registry, nDerived, notIdentity>>

\* Deserialize's answers with those of the calls that follow it left at their
\* defaults, when Deserialize does not return an identity.
Extend(a, rest) == [f \in DOMAIN a \cup DOMAIN rest |-> IF f \in DOMAIN a THEN a[f] ELSE rest[f]]
Rejecting == DeserializeAnswers \ {[import |-> NoErr, bytes |-> NoErr, verify |-> Valid]}
Accepting == [import |-> NoErr, bytes |-> NoErr, verify |-> Valid]

SignerRest == [get |-> NoErr, sign |-> NoErr, probe |-> Valid]
DeserializeSignerAnswers ==
    {Extend(a, SignerRest) : a \in Rejecting}
    \cup {Extend(Accepting, [SignerRest EXCEPT !.get = EngineErr]),
          Extend(Accepting, [SignerRest EXCEPT !.sign = EngineErr])}
    \cup {Extend(Accepting, [SignerRest EXCEPT !.probe = a]) : a \in VerifyAnswers}

DeserializeSignerCall ==
    /\ last = Idle
    /\ prov # None
    /\ \E raw \in SpecRaws, eng \in DeserializeSignerAnswers :
          last' = [op |-> "DeserializeSigner",
                   in |-> [support |-> prov[1].support, raw |-> raw, eng |-> eng,
                           keyStore |-> keyStore],
                   out |-> DeserializeSigner(prov[1], keyStore, raw, eng)]
    /\ UNCHANGED <<prov, keyStore, registry, nDerived, notIdentity>>

\* Audit bytes: none, undecodable, and the audit info of an identity.
AuditInputs ==
    {None,
     Some([form |-> "garbage", IdemixSignatureInfo |-> SignatureInfo(<<>>),
           Attributes |-> <<"", "", "">>])}
    \cup {Some([form |-> "canonical", IdemixSignatureInfo |-> SignatureInfo(<<7>>),
                Attributes |-> <<"manufacturing", Itoa(r), "alice">>]) : r \in {MEMBER, ADMIN}}

\* The audit bytes and the answers of one Info call: when Deserialize rejects,
\* what follows it is left at its default.
InfoCases ==
    {<<None, Extend(a, [match |-> NoErr])>> : a \in Rejecting}
    \cup {<<ai, Extend(Accepting, [match |-> m])>> : ai \in AuditInputs, m \in ErrAnswers}

InfoCall ==
    /\ last = Idle
    /\ prov # None
    /\ \E raw \in SpecRaws, c \in InfoCases :
          last' = [op |-> "Info",
                   in |-> [support |-> prov[1].support, raw |-> raw,
                           auditInfo |-> c[1], eng |-> c[2]],
                   out |-> Info(prov[1], raw, c[1], c[2])]
    /\ UNCHANGED <<prov, keyStore, registry, nDerived, notIdentity>>

DeserializeSigningIdentityAnswers ==
    {Extend(a, [get |-> NoErr]) : a \in Rejecting}
    \cup {Extend(Accepting, [get |-> g]) : g \in ErrAnswers}

DeserializeSigningIdentityCall ==
    /\ last = Idle
    /\ prov # None
    /\ \E raw \in SpecRaws, eng \in DeserializeSigningIdentityAnswers :
          last' = [op |-> "DeserializeSigningIdentity",
                   in |-> [support |-> prov[1].support, raw |-> raw, eng |-> eng,
                           keyStore |-> keyStore],
                   out |-> DeserializeSigningIdentity(prov[1], keyStore, raw, eng)]
    /\ UNCHANGED <<prov, keyStore, registry, nDerived, notIdentity>>

\* The undisclosed material a signingIdentity may hold: enrollment id,
\* credential, user secret key and pseudonym secret key handle.
Secrets ==
    [enrollmentId : {"alice", "bob"}, Cred : {<<6>>, <<5>>},
     UserKey : {Some([kind |-> "userSK", sk |-> k]) : k \in {<<5>>, <<4>>}},
     handle : {1, 2}]

\* The signing identity around identity id that holds the secrets s.
WithSecrets(id, s) ==
    [identity |-> id, Cred |-> s.Cred, UserKey |-> s.UserKey,
     NymKey |-> NymSK(s.handle, id.NymPublicKey.raw, id.NymPublicKey.bytesErr),
     enrollmentId |-> s.enrollmentId]

\* Serialize called on the signing identity SignerIdentity returned (a) and on
\* one with the same identity and any other secrets (b).
SerializeSigningIdentityCall ==
    /\ last.op = "SignerIdentity" /\ last.out.ret # None
    /\ \E s \in Secrets :
          LET a == last.out.ret[1]
              b == WithSecrets(a.identity, s)
          IN  last' = [op |-> "SerializeSigningIdentity",
                       in |-> [a |-> a, b |-> b],
                       out |-> [a |-> SerializeSigningIdentity(a),
                                b |-> SerializeSigningIdentity(b),
                                panic |-> FALSE]]
    /\ UNCHANGED <<prov, keyStore, registry, nDerived, notIdentity>>

----------------------------------------------------------------------------
(* The badger-backed versioned store (badgerDB) *)

\* Update transactions begun in one run.
MaxTxns == 2
\* The goroutines that call the store, and the keys they write.
Threads == {"g1", "g2"}
DBKeys == {"ns\\k"}

WriteOps == {"SetState", "SetStateMetadata", "DeleteState"}

\* badger.ErrDiscardedTxn: what badger answers when a transaction that was
\* committed or discarded is used again.
ErrDiscardedTxn == <<"This transaction has been discarded. Create a new one">>

\* db.db.NewTransaction(true)
NewTransaction == [state |-> "open", pendingWrites |-> {}]

\* A call of operation op that has got to pc.  seen is what the call read
\* from db.txn when it tested it, on the transaction it then read or wrote
\* through and onState the state that transaction was in, applied whether the
\* write went into its pending writes, after what db.txn held when the call
\* returned.
DBCall(op, pc, key) ==
    [op |-> op, pc |-> pc, key |-> key, err |-> NoErr, seen |-> None,
     on |-> None, onState |-> "", applied |-> FALSE, after |-> None]

NoCall == DBCall("none", "idle", "")

\* A panic is not recovered by the store: it ends the process.
Alive == \A t \in Threads : dbCalls[t].pc # "panic"
Ready(t) == Alive /\ dbCalls[t].pc \in {"idle", "done"}
At(t, ops, pc) == Alive /\ dbCalls[t].op \in ops /\ dbCalls[t].pc = pc

\* db.txnLock.Lock() returns once no other call holds the lock.
Lockable == db.txnLock = None

Returned(t, c, err) ==
    dbCalls' = [dbCalls EXCEPT ![t] = [c EXCEPT !.pc = "done", !.err = err,
                                                !.after = db'.txn]]
Moved(t, c, pc) == dbCalls' = [dbCalls EXCEPT ![t] = [c EXCEPT !.pc = pc]]

InitDB ==
    /\ db = [txn |-> None, txnLock |-> None]
    /\ txns = <<>>
    /\ dbCalls = [t \in Threads |-> NoCall]

\* Faulty variant of BeginUpdate: it does not test db.txn, and replaces an
\* update that is under way.
BeginUpdateUnchecked ==
    \E t \in Threads :
        /\ Ready(t)
        /\ Lockable
        /\ Len(txns) < MaxTxns
        /\ txns' = Append(txns, NewTransaction)
        /\ db' = [db EXCEPT !.txn = Some(Len(txns) + 1)]
        /\ Returned(t, [DBCall("BeginUpdate", "lock", "") EXCEPT !.seen = db.txn],
                    NoErr)
        /\ UNCHANGED notDB

\* func (db *badgerDB) BeginUpdate() error, the whole body under txnLock.
BeginUpdate ==
    \E t \in Threads :
        LET c == [DBCall("BeginUpdate", "lock", "") EXCEPT !.seen = db.txn]
        IN  /\ Ready(t)
            /\ Lockable
            /\ IF db.txn # None
               THEN /\ UNCHANGED <<db, txns>>
                    /\ Returned(t, c, Errorf("previous commit in progress"))
               ELSE /\ Len(txns) < MaxTxns
                    /\ txns' = Append(txns, NewTransaction)
                    /\ db' = [db EXCEPT !.txn = Some(Len(txns) + 1)]
                    /\ Returned(t, c, NoErr)
            /\ UNCHANGED notDB

\* func (db *badgerDB) Commit() error, up to the return of db.txn.Commit():
\* the lock is taken, db.txn tested and the transaction committed.  A failed
\* commit returns at once, the deferred Unlock releasing the lock.
Commit ==
    \E t \in Threads :
        LET c == [DBCall("Commit", "lock", "") EXCEPT !.seen = db.txn]
        IN  /\ Ready(t)
            /\ Lockable
            /\ IF db.txn = None
               THEN /\ UNCHANGED <<db, txns>>
                    /\ Returned(t, c, Errorf("no commit in progress"))
               ELSE \E e \in ErrAnswers :
                       IF e # NoErr
                       THEN /\ txns' = [txns EXCEPT ![db.txn[1]].state = "failed"]
                            /\ UNCHANGED db
                            /\ Returned(t, c, Wrap(e, "could not commit transaction"))
                       ELSE /\ txns' = [txns EXCEPT ![db.txn[1]].state = "committed"]
                            /\ db' = [db EXCEPT !.txnLock = Some(t)]
                            /\ Moved(t, c, "reset")
            /\ UNCHANGED notDB

\* Commit, from `db.txn = nil` to its return.
CommitReset ==
    \E t \in Threads :
        /\ At(t, {"Commit"}, "reset")
        /\ db' = [txn |-> None, txnLock |-> None]
        /\ Returned(t, dbCalls[t], NoErr)
        /\ UNCHANGED <<txns, notDB>>

\* func (db *badgerDB) Discard() error, up to the return of db.txn.Discard().
Discard ==
    \E t \in Threads :
        LET c == [DBCall("Discard", "lock", "") EXCEPT !.seen = db.txn]
        IN  /\ Ready(t)
            /\ Lockable
            /\ IF db.txn = None
               THEN /\ UNCHANGED <<db, txns>>
                    /\ Returned(t, c, Errorf("no commit in progress"))
               ELSE /\ txns' = [txns EXCEPT ![db.txn[1]].state = "discarded"]
                    /\ db' = [db EXCEPT !.txnLock = Some(t)]
                    /\ Moved(t, c, "reset")
            /\ UNCHANGED notDB

\* Discard, from `db.txn = nil` to its return.
DiscardReset ==
    \E t \in Threads :
        /\ At(t, {"Discard"}, "reset")
        /\ db' = [txn |-> None, txnLock |-> None]
        /\ Returned(t, dbCalls[t], NoErr)
        /\ UNCHANGED <<txns, notDB>>

\* `if db.txn == nil { panic(...) }`, the first statement of the three
\* writers, which do not take txnLock.
CheckTxn(t, op, next) ==
    /\ \E key \in DBKeys :
          LET c == [DBCall(op, "check", key) EXCEPT !.seen = db.txn]
          IN  Moved(t, c, IF db.txn = None THEN "panic" ELSE next)
    /\ UNCHANGED <<db, txns, notDB>>

\* func (db *badgerDB) SetState(...) error, its test of db.txn.
SetState ==
    \E t \in Threads :
        /\ Ready(t)
        /\ CheckTxn(t, "SetState", "read")

\* func (db *badgerDB) SetStateMetadata(...) error, its test of db.txn.
SetStateMetadata ==
    \E t \in Threads :
        /\ Ready(t)
        /\ CheckTxn(t, "SetStateMetadata", "read")

\* func (db *badgerDB) DeleteState(...) error, its test of db.txn.
DeleteState ==
    \E t \in Threads :
        /\ Ready(t)
        /\ CheckTxn(t, "DeleteState", "write")

\* v, err := db.versionedValue(db.txn, dbKey): db.txn is read again and
\* txn.Get called on it; a nil transaction is dereferenced.
VersionedValue ==
    \E t \in Threads :
        /\ At(t, {"SetState", "SetStateMetadata"}, "read")
        /\ UNCHANGED <<db, txns, notDB>>
        /\ IF db.txn = None
           THEN Moved(t, dbCalls[t], "panic")
           ELSE IF txns[db.txn[1]].state # "open"
           THEN Returned(t, [dbCalls[t] EXCEPT !.on = db.txn,
                                               !.onState = txns[db.txn[1]].state],
                         Wrap(ErrDiscardedTxn, "could not retrieve item for key"))
           ELSE \E e \in ErrAnswers :
                   IF e # NoErr
                   THEN Returned(t, dbCalls[t],
                                 Wrap(e, "could not retrieve item for key"))
                   ELSE Moved(t, dbCalls[t], "write")

\* The write of call t, `db.txn.Set(...)` or `db.txn.Delete(...)`, on the
\* transaction db.txn holds now; msg wraps badger's error.
TxnWrite(t, msg) ==
    IF db.txn = None
    THEN /\ Moved(t, dbCalls[t], "panic")
         /\ UNCHANGED txns
    ELSE LET c == [dbCalls[t] EXCEPT !.on = db.txn,
                                     !.onState = txns[db.txn[1]].state]
         IN  IF txns[db.txn[1]].state # "open"
             THEN /\ Returned(t, c, Wrap(ErrDiscardedTxn, msg))
                  /\ UNCHANGED txns
             ELSE \E e \in ErrAnswers :
                     IF e # NoErr
                     THEN /\ Returned(t, c, Wrap(e, msg))
                          /\ UNCHANGED txns
                     ELSE /\ txns' = [txns EXCEPT ![db.txn[1]].pendingWrites =
                                                      @ \cup {c.key}]
                          /\ Returned(t, [c EXCEPT !.applied = TRUE], NoErr)

\* err = db.txn.Set([]byte(dbKey), bytes) of SetState and SetStateMetadata.
TxnSet ==
    \E t \in Threads :
        /\ At(t, {"SetState", "SetStateMetadata"}, "write")
        /\ UNCHANGED <<db, notDB>>
        /\ TxnWrite(t, "could not set value for key")

\* err := db.txn.Delete([]byte(dbKey)) of DeleteState.
TxnDelete ==
    \E t \in Threads :
        /\ At(t, {"DeleteState"}, "write")
        /\ UNCHANGED <<db, notDB>>
        /\ TxnWrite(t, "could not delete value for key")

NextDB ==
    \/ BeginUpdate
    \/ Commit
    \/ CommitReset
    \/ Discard
    \/ DiscardReset
    \/ SetState
    \/ SetStateMetadata
    \/ DeleteState
    \/ VersionedValue
    \/ TxnSet
    \/ TxnDelete

----------------------------------------------------------------------------
(* Waiting for the commit of a transaction (DeliverReceive) *)

\* Responses a deliver stream carries before it ends, and transactions in a
\* filtered block.
MaxResponses == 2
MaxTxInBlock == 2

Txids == {"tx1", "tx2"}
TxValidationCode_VALID == "VALID"
TxValidationCodes == {TxValidationCode_VALID, "MVCC_READ_CONFLICT"}
FilteredTransactions == [Txid : Txids, TxValidationCode : TxValidationCodes]
BlockNumbers == {7}

\* What df.Recv() may return: an error, or a response whose Type is a filtered
\* block, a status, or anything else (a full block, nil).
DeliverResponses ==
    {[type |-> "error"], [type |-> "Status"], [type |-> "Block"]}
    \cup [type : {"FilteredBlock"}, Number : BlockNumbers,
          FilteredTransactions :
              UNION {[1..n -> FilteredTransactions] : n \in 0..MaxTxInBlock}]
\* The peer closed the stream: Recv returns io.EOF.
EOF == [type |-> "error"]

\* event := TxEvent{Txid: txid, Committed: false, CommitPeer: address}
TxEvent(txid, address) ==
    [Txid |-> txid, Committed |-> FALSE, CommitPeer |-> address,
     Block |-> 0, IndexInBlock |-> 0, Err |-> NoErr]

\* The positions of txid in the transactions of a block, `tx.Txid == txid`.
Matches(txs, txid) == {i \in DOMAIN txs : txs[i].Txid = txid}
FirstMatch(txs, txid) ==
    CHOOSE i \in Matches(txs, txid) : \A j \in Matches(txs, txid) : i <= j

\* Faulty variant of OnResponse: a block that holds the awaited transaction
\* reports it committed whatever its validation code.
OnResponseAnyCode(event, resp) ==
    IF resp.type = "FilteredBlock"
        /\ Matches(resp.FilteredTransactions, event.Txid) # {}
    THEN [event |-> [event EXCEPT !.Committed = TRUE], stop |-> TRUE]
    ELSE [event |-> [event EXCEPT !.Err = Errorf("no block with the transaction")],
          stop |-> TRUE]

\* One turn of the `read:` loop on what Recv returned: the event afterwards,
\* and whether the loop is left (break read).  IndexInBlock counts from 0.
OnResponse(event, resp) ==
    IF resp.type = "error"
    THEN [event |-> [event EXCEPT !.Err = WithMessage(EngineErr,
                        "error receiving deliver response from peer")],
          stop |-> TRUE]
    ELSE IF resp.type = "FilteredBlock"
    THEN LET txs == resp.FilteredTransactions
         IN  IF Matches(txs, event.Txid) = {}
             THEN [event |-> event, stop |-> FALSE]
             ELSE LET i == FirstMatch(txs, event.Txid)
                  IN  IF txs[i].TxValidationCode = TxValidationCode_VALID
                      THEN [event |-> [event EXCEPT !.Committed = TRUE,
                                                    !.Block = resp.Number,
                                                    !.IndexInBlock = i - 1],
                            stop |-> TRUE]
                      ELSE [event |-> [event EXCEPT !.Err =
                                Errorf("transaction status is not valid")],
                            stop |-> TRUE]
    ELSE IF resp.type = "Status"
    THEN [event |-> [event EXCEPT !.Err =
                Errorf("deliver completed with status before txid received")],
          stop |-> TRUE]
    ELSE [event |-> [event EXCEPT !.Err =
                Errorf("received unexpected response type")],
          stop |-> TRUE]

InitDeliver ==
    /\ deliver = [pc |-> "idle"]
    /\ eventCh = [cap |-> 0, buf |-> <<>>, waiting |-> FALSE, got |-> None]

\* A filtered block that holds the transaction txid with code VALID.
HoldsValid(resp, txid) ==
    /\ resp.type = "FilteredBlock"
    /\ \E i \in DOMAIN resp.FilteredTransactions :
          resp.FilteredTransactions[i] =
              [Txid |-> txid, TxValidationCode |-> TxValidationCode_VALID]

\* A call DeliverReceive(df, address, txid, eventCh) starts, on a channel of
\* the caller with room for cap events.  read counts the responses received,
\* resp is the last of them, validSeen whether one of them was a filtered
\* block holding the awaited transaction with code VALID.
DeliverReceive ==
    /\ deliver.pc = "idle"
    /\ \E cap \in {0, 1} :
          /\ deliver' = [pc |-> "read", read |-> 0, resp |-> None,
                         validSeen |-> FALSE,
                         event |-> TxEvent("tx1", "peer0"), sent |-> 0,
                         ret |-> NoErr]
          /\ eventCh' = [eventCh EXCEPT !.cap = cap]
    /\ UNCHANGED notDeliver

\* resp, err := df.Recv() and the switch on it; the stream ends after
\* MaxResponses responses.
Recv ==
    /\ deliver.pc = "read"
    /\ \E resp \in IF deliver.read < MaxResponses THEN DeliverResponses ELSE {EOF} :
          LET r == OnResponse(deliver.event, resp)
          IN  deliver' = [deliver EXCEPT
                             !.read = @ + 1, !.resp = Some(resp),
                             !.validSeen = @ \/ HoldsValid(resp, deliver.event.Txid),
                             !.event = r.event,
                             !.pc = IF r.stop THEN "send" ELSE "read"]
    /\ UNCHANGED <<eventCh, notDeliver>>

\* The channel takes a value now: its buffer has room, or a receiver waits.
CanSend == Len(eventCh.buf) < eventCh.cap \/ eventCh.waiting

\* What DeliverWaitForResponse returns for an event it received.
Response(event, txid) ==
    IF txid = event.Txid
    THEN [committed |-> event.Committed, block |-> event.Block,
          index |-> event.IndexInBlock, err |-> event.Err]
    ELSE [committed |-> FALSE, block |-> 0, index |-> 0,
          err |-> Errorf("no event received for txid")]

\* select { case eventCh <- event: default: } and `return event.Err`.  A
\* waiting receiver is handed the event.
SendEvent ==
    /\ deliver.pc = "send"
    /\ IF ~CanSend
       THEN /\ UNCHANGED eventCh
            /\ deliver' = [deliver EXCEPT !.pc = "done", !.ret = deliver.event.Err]
       ELSE /\ eventCh' =
                  IF eventCh.waiting
                  THEN [eventCh EXCEPT !.waiting = FALSE,
                            !.got = Some(Response(deliver.event, "tx1"))]
                  ELSE [eventCh EXCEPT !.buf = Append(@, deliver.event)]
            /\ deliver' = [deliver EXCEPT !.pc = "done", !.sent = @ + 1,
                                          !.ret = deliver.event.Err]
    /\ UNCHANGED notDeliver

\* DeliverWaitForResponse(ctx, eventCh, txid): the caller reaches the select.
DeliverWaitForResponse ==
    /\ deliver.pc # "idle"
    /\ ~eventCh.waiting
    /\ eventCh.got = None
    /\ eventCh' = IF eventCh.buf # <<>>
                  THEN [eventCh EXCEPT !.buf = Tail(@),
                            !.got = Some(Response(Head(eventCh.buf), "tx1"))]
                  ELSE [eventCh EXCEPT !.waiting = TRUE]
    /\ UNCHANGED <<deliver, notDeliver>>

\* case <-ctx.Done(): the wait times out.
WaitTimeout ==
    /\ eventCh.waiting
    /\ eventCh' = [eventCh EXCEPT !.waiting = FALSE,
                      !.got = Some([committed |-> FALSE, block |-> 0, index |-> 0,
                          err |-> Errorf("timed out waiting for committing txid")])]
    /\ UNCHANGED <<deliver, notDeliver>>

NextDeliver ==
    \/ DeliverReceive
    \/ Recv
    \/ SendEvent
    \/ DeliverWaitForResponse
    \/ WaitTimeout

----------------------------------------------------------------------------
(* The service registry (serviceProvider) *)

\* Services registered in one run.
MaxServices == 3

Interfaces == {"I1", "I2"}
\* A service: which object it is, and the interfaces its type implements.
ServiceValues == [name : {"a", "b"}, implements : SUBSET Interfaces]

\* reflect.Type values a lookup is made with: the type of a pointer to an
\* interface, reflect.TypeOf((*I)(nil)), and the interface type itself.
PtrTo(i) == [kind |-> "Ptr", name |-> i]
InterfaceType(i) == [kind |-> "Interface", name |-> i]
LookupTypes == {PtrTo(i) : i \in Interfaces} \cup {InterfaceType(i) : i \in Interfaces}

\* reflect.TypeOf(s).Implements(typ), and the positions of the services that
\* do, in the order of sp.services.
Implements(s, typ) == typ.name \in s.implements
Implementing(services, typ) == {k \in DOMAIN services : Implements(services[k], typ)}

\* Faulty variant of Scan: the service registered last wins.
ScanLatest(services, typ) ==
    LET ks == Implementing(services, typ)
    IN  IF ks = {} THEN None
        ELSE Some(services[CHOOSE k \in ks : \A j \in ks : j <= k])

\* for _, s := range sp.services { if reflect.TypeOf(s).Implements(typ) ... }:
\* the first service that implements typ, None when the loop ends without.
Scan(services, typ) ==
    LET ks == Implementing(services, typ)
    IN  IF ks = {} THEN None
        ELSE Some(services[CHOOSE k \in ks : \A j \in ks : k <= j])

\* func (sp *serviceProvider) GetService(v interface{}) (interface{}, error),
\* for v a reflect.Type.  typ.Elem() panics on a type that is no pointer.
GetService(s, typ) ==
    IF typ \in DOMAIN s.serviceMap
    THEN [sp |-> s, service |-> Some(s.serviceMap[typ]), err |-> NoErr, panic |-> FALSE]
    ELSE IF typ.kind # "Ptr"
    THEN [sp |-> s, service |-> None, err |-> NoErr, panic |-> TRUE]
    ELSE LET elem == InterfaceType(typ.name)
             found == Scan(s.services, elem)
         IN  IF found # None
             THEN [sp |-> [s EXCEPT !.serviceMap = (elem :> found[1]) @@ @],
                   service |-> found, err |-> NoErr, panic |-> FALSE]
             ELSE [sp |-> s, service |-> None,
                   err |-> Errorf("service not found"), panic |-> FALSE]

\* registry.New()
InitSP ==
    /\ registrySP = [services |-> <<>>, serviceMap |-> <<>>]
    /\ lookups = [last |-> [op |-> "none"],
                  first |-> [i \in Interfaces |-> None]]

\* func (sp *serviceProvider) RegisterService(service interface{}) error
RegisterService ==
    /\ Len(registrySP.services) < MaxServices
    /\ \E s \in ServiceValues :
          registrySP' = [registrySP EXCEPT !.services = Append(@, s)]
    /\ lookups' = [lookups EXCEPT !.last = [op |-> "RegisterService"]]
    /\ UNCHANGED notSP

\* A call of GetService; first keeps, per interface, the service the first
\* successful lookup returned.
GetServiceCall ==
    /\ \E typ \in LookupTypes :
          LET r == GetService(registrySP, typ)
          IN  /\ registrySP' = r.sp
              /\ lookups' =
                    [last |-> [op |-> "GetService", typ |-> typ, before |-> registrySP,
                               out |-> [service |-> r.service, err |-> r.err,
                                        panic |-> r.panic]],
                     first |-> IF r.service # None /\ lookups.first[typ.name] = None
                               THEN [lookups.first EXCEPT ![typ.name] = r.service]
                               ELSE lookups.first]
    /\ UNCHANGED notSP

NextSP ==
    \/ RegisterService
    \/ GetServiceCall

----------------------------------------------------------------------------
(* The node synthesizer's imports (Node.addImport) *)

\* Factory, SDK and responder entries of one node.
MaxEntries == 2

\* Import paths dir/base, in the order of the strings.
DirOrder == <<"a", "b", "c">>
BaseOrder == <<"foo", "foo1">>
PkgPaths == [dir : {DirOrder[k] : k \in DOMAIN DirOrder},
             base : {BaseOrder[k] : k \in DOMAIN BaseOrder}]
Rank(order, x) == CHOOSE k \in DOMAIN order : order[k] = x
Less(p, q) ==
    \/ Rank(DirOrder, p.dir) < Rank(DirOrder, q.dir)
    \/ p.dir = q.dir /\ Rank(BaseOrder, p.base) < Rank(BaseOrder, q.base)

\* sort.SearchStrings(imports, i) on a sorted slice, counted from 0.
SearchStrings(imports, i) == Cardinality({k \in DOMAIN imports : Less(imports[k], i)})

\* The result of addImport: the node afterwards, the alias returned, and
\* whether the call panicked.  Aliases is None for a nil map, which reads as
\* empty and cannot be written.
AliasOf(n, i) ==
    IF n.Aliases # None /\ i \in DOMAIN n.Aliases[1] THEN n.Aliases[1][i].Alias ELSE ""

\* func (n *Node) addImport(i string) string
addImport(n, i) ==
    LET index == SearchStrings(n.Imports, i)
    IN  IF index < Len(n.Imports) /\ n.Imports[index + 1] = i
        THEN [n |-> n, alias |-> AliasOf(n, i), panic |-> FALSE]
        ELSE LET aliases == IF n.Aliases = None THEN <<>> ELSE n.Aliases[1]
                 counter == Cardinality({p \in DOMAIN aliases :
                                            aliases[p].Original = i.base})
                 newAlias == IF counter > 0 THEN i.base \o Itoa(counter) ELSE i.base
             IN  IF n.Aliases = None
                 THEN [n |-> n, alias |-> "", panic |-> TRUE]
                 ELSE [n |-> [n EXCEPT
                                !.Aliases = Some((i :> [Original |-> i.base,
                                                        Alias |-> newAlias])
                                                 @@ aliases),
                                !.Imports = SubSeq(@, 1, index) \o <<i>>
                                            \o SubSeq(@, index + 1, Len(@))],
                       alias |-> newAlias, panic |-> FALSE]

\* func NewNode(name string) *Node
NewNode ==
    [Aliases |-> Some(<<>>), Imports |-> <<>>, Factories |-> <<>>,
     SDKs |-> <<>>, Responders |-> <<>>]

\* func NewNodeFromTemplate(name string, template *Node) *Node: Aliases and
\* SDKs are not set.
NewNodeFromTemplate(template) ==
    [Aliases |-> None, Imports |-> template.Imports,
     Factories |-> template.Factories, SDKs |-> <<>>,
     Responders |-> template.Responders]

Entries(n) == Len(n.Factories) + Len(n.SDKs) + Len(n.Responders)

InitNode ==
    /\ node = NewNode
    /\ nodeCall = [op |-> "NewNode", panic |-> FALSE]

\* A node is made from the node built so far.
NewNodeFromTemplateCall ==
    /\ ~nodeCall.panic
    /\ nodeCall.op # "NewNodeFromTemplate"
    /\ node' = NewNodeFromTemplate(node)
    /\ nodeCall' = [op |-> "NewNodeFromTemplate", panic |-> FALSE]
    /\ UNCHANGED notNode

\* func (n *Node) AddSDK(sdk api.SDK) *Node, for an SDK of package i.
AddSDK ==
    /\ ~nodeCall.panic
    /\ Entries(node) < MaxEntries
    /\ \E i \in PkgPaths :
          LET r == addImport(node, i)
          IN  /\ node' = IF r.panic THEN node
                         ELSE [r.n EXCEPT !.SDKs = Append(@, [Type |-> r.alias])]
              /\ nodeCall' = [op |-> "AddSDK", panic |-> r.panic]
    /\ UNCHANGED notNode

\* func (n *Node) RegisterViewFactory(id string, factory Factory) *Node
RegisterViewFactory ==
    /\ ~nodeCall.panic
    /\ Entries(node) < MaxEntries
    /\ \E i \in PkgPaths :
          LET r == addImport(node, i)
          IN  /\ node' = IF r.panic THEN node
                         ELSE [r.n EXCEPT !.Factories = Append(@, [Type |-> r.alias])]
              /\ nodeCall' = [op |-> "RegisterViewFactory", panic |-> r.panic]
    /\ UNCHANGED notNode

\* func (n *Node) RegisterResponder(responder, initiator view.View) *Node:
\* two imports, and an entry that names the types by their packages.
RegisterResponder ==
    /\ ~nodeCall.panic
    /\ Entries(node) < MaxEntries
    /\ \E i, j \in PkgPaths :
          LET r1 == addImport(node, i)
              r2 == IF r1.panic THEN r1 ELSE addImport(r1.n, j)
          IN  /\ node' = IF r2.panic THEN r1.n
                         ELSE [r2.n EXCEPT !.Responders =
                                  Append(@, [Responder |-> i.base, Initiator |-> j.base])]
              /\ nodeCall' = [op |-> "RegisterResponder", panic |-> r2.panic]
    /\ UNCHANGED notNode

NextNode ==
    \/ NewNodeFromTemplateCall
    \/ AddSDK
    \/ RegisterViewFactory
    \/ RegisterResponder

Init ==
    /\ prov = None
    /\ keyStore = {}
    /\ registry = {}
    /\ nDerived = 0
    /\ last = Idle
    /\ InitDB
    /\ InitDeliver
    /\ InitSP
    /\ InitNode

NextCodec ==
    \/ CodecNewIdentity
    \/ CodecDeserialize
    \/ CodecSerialize
    \/ CodecDeserializeSerialized
    \/ CodecValidate
    \/ CodecVerify
    \/ CodecGetOrganizationalUnits
    \/ CodecSatisfiesPrincipal
    \/ Return

SpecCodec == Init /\ [][NextCodec]_vars

Next ==
    \/ NewProviderCall
    \/ IdentityCall
    \/ SignerIdentityCall
    \/ DeserializeCall
    \/ DeserializeVerifierCall
    \/ DeserializeSignerCall
    \/ InfoCall
    \/ DeserializeSigningIdentityCall
    \/ SerializeSigningIdentityCall
    \/ Return

Spec == Init /\ [][Next]_vars

----------------------------------------------------------------------------
(* Claims *)

\* The entry points that validate what they parse.
ValidatingOps ==
    {"DeserializeVerifier", "DeserializeSigner", "Info", "DeserializeSigningIdentity"}
Validating(l) ==
    \/ l.op \in ValidatingOps
    \/ l.op = "Deserialize" /\ l.in.checkValidity

\* Whether the outer envelope parses and names another authority than s.
NamesOtherAuthority(raw, s) == raw.form # "garbage" /\ raw.Mspid # s.name

\* C1: serialized identities whose envelope names another authority than the
\* verifying Support are rejected by Deserialize(raw, true),
\* DeserializeVerifier, DeserializeSigner, Info and DeserializeSigningIdentity,
\* whatever the engine answers: none of them returns a value for such bytes.
C1_OtherAuthorityRejected ==
    (Validating(last) /\ NamesOtherAuthority(last.in.raw, last.in.support))
        => /\ last.out.ret = None
           /\ (last.out.err # NoErr \/ last.out.panic)

\* Whether the credential self-check of an Identity / SignerIdentity call was
\* reached and did not report the credential valid.
CredentialNotValid(l) ==
    /\ l.op \in {"Identity", "SignerIdentity"}
    /\ l.in.eng.deriv = NoErr /\ l.in.eng.pub = NoErr
    /\ ~(l.in.eng.cred.valid /\ l.in.eng.cred.err = NoErr)

MadeCall(l, fn) == \E i \in 1..Len(l.out.calls) : l.out.calls[i].fn = fn

\* C2: when the credential self-check does not report the credential valid,
\* Identity() and SignerIdentity() return a non-nil error and no identity,
\* generate no proof and register no signer.
C2_InvalidCredentialIsAnError ==
    CredentialNotValid(last)
        => /\ last.out.err # NoErr
           /\ last.out.ret = None
           /\ ~MadeCall(last, "Sign")
           /\ last.out.registered = {}

\* C3: identity.Verify returns success only if the engine reports the signature
\* valid for this identity's pseudonym public key with the issuer public key as
\* context: every engine answer of "invalid" makes it return an error.
C3_VerifyRejectsInvalid ==
    last.op = "Verify"
        => /\ last.call.key = last.in.id.NymPublicKey
           /\ last.call.IssuerPK = last.in.id.support.issuerPublicKey
           /\ (~last.in.ans.valid => last.out.err # NoErr)


\* Whether the identity a Validate call was made on carries the name of its
\* Support: it was built by newIdentity for that Support, or parsed from an
\* envelope naming it.
NameMatches(l) ==
    \/ l.prev.op = "newIdentity"
    \/ l.prev.op = "Deserialize" /\ l.prev.in.raw.Mspid = l.in.id.support.name

\* The proof verification the engine is asked for, field by field.
ProofVerification(id) ==
    [fn |-> "Verify",
     key |-> IssuerKey(id.support.name),
     sig |-> id.associationProof,
     msg |-> <<>>,
     RevocationPublicKey |-> RevocationKey(id.support.name),
     Attributes |-> << [Type |-> "Bytes", Value |-> <<id.OU.OrganizationalUnitIdentifier>>],
                       [Type |-> "Int",
                        Value |-> <<IF id.Role.Role = MSPRole_ADMIN THEN ADMIN ELSE MEMBER>>],
                       [Type |-> "Hidden", Value |-> <<>>],
                       [Type |-> "Hidden", Value |-> <<>>] >>,
     RhIndex |-> 3,
     Epoch |-> id.support.epoch]

\* C4: for an identity carrying its Support's name, Validate() returns success
\* exactly when the engine, asked to verify the proof under the issuer key with
\* an empty message, the revocation key, attributes [Bytes(OU id), Int(role
\* code), Hidden, Hidden], revocation-handle index 3 and the Support's epoch,
\* answers valid with no error; otherwise it does not return success.
C4_ValidateIffEngineValid ==
    (last.op = "Validate" /\ NameMatches(last))
        => /\ last.out.calls = <<ProofVerification(last.in.id)>>
           /\ (last.out.err = NoErr /\ ~last.out.panic)
                <=> (last.in.ans.valid /\ last.in.ans.err = NoErr)

C4_Witness ==
    /\ last.op = "Validate" /\ NameMatches(last)
    /\ last.prev.op = "Deserialize"
    /\ last.in.id.support.epoch = 1
    /\ last.in.id.Role.Role = MSPRole_ADMIN
    /\ last.in.ans = Valid
    /\ last.out.err = NoErr /\ ~last.out.panic

----------------------------------------------------------------------------

\* A Serialize call on the identity that Deserialize returned for given bytes
\* it accepted as valid.
ReserializedAccepted(l) ==
    /\ l.op = "Serialize"
    /\ l.prev.op = "Deserialize" /\ l.prev.prev = Idle
    /\ l.prev.in.checkValidity

\* Whether bytes are the one encoding Marshal produces of their contents.
Canonical(raw) ==
    /\ raw.form = "canonical" /\ raw.IdBytes.form = "canonical"
    /\ raw.IdBytes.Ou.form = "canonical" /\ raw.IdBytes.Role.form = "canonical"

\* Whether the pseudonym key bytes are divided at the midpoint.
MidSplit(raw) ==
    Len(raw.IdBytes.NymX) = (Len(raw.IdBytes.NymX) + Len(raw.IdBytes.NymY)) \div 2

\* C5 as stated: serializing the identity Deserialize returns for accepted
\* bytes yields exactly those bytes, however the key was divided.
C5_Original ==
    ReserializedAccepted(last)
        => last.out.err = NoErr /\ last.out.raw = last.prev.in.raw

\* C5 as amended: serializing the identity Deserialize returns for accepted
\* bytes yields the canonical encoding, under the Support's name and with the
\* key divided at the midpoint, of the same key bytes, OU, role and proof; it
\* equals the input exactly when the input is canonically encoded, names the
\* Support and divides the key at the midpoint.
C5_ReserializeCanonical ==
    ReserializedAccepted(last)
        => LET raw == last.prev.in.raw
               out == last.out.raw
           IN  /\ last.out.err = NoErr
               /\ Canonical(out) /\ MidSplit(out)
               /\ out.Mspid = last.prev.in.support.name
               /\ out.IdBytes.NymX \o out.IdBytes.NymY
                     = raw.IdBytes.NymX \o raw.IdBytes.NymY
               /\ out.IdBytes.Proof = raw.IdBytes.Proof
               /\ WithForm(out.IdBytes.Ou, "canonical") = WithForm(raw.IdBytes.Ou, "canonical")
               /\ WithForm(out.IdBytes.Role, "canonical")
                     = WithForm(raw.IdBytes.Role, "canonical")
               /\ (out = raw) <=> /\ Canonical(raw)
                                  /\ MidSplit(raw)
                                  /\ raw.Mspid = last.prev.in.support.name

C5_Witness ==
    /\ ReserializedAccepted(last)
    /\ Len(last.prev.in.raw.IdBytes.NymX) = 1
    /\ Len(last.prev.in.raw.IdBytes.NymY) = 2
    /\ last.out.raw = last.prev.in.raw

\* A Deserialize call, all engine calls succeeding, on the bytes Serialize
\* returned for a built identity, by a Support of the identity's name.
RoundTrip(l) ==
    /\ l.op = "Deserialize" /\ l.prev.op = "Serialize"
    /\ l.in.support.name = l.prev.in.id.support.name
    /\ l.in.eng = Accepting

SameIdentity(l) ==
    /\ l.out.ret # None
    /\ l.out.ret[1].id.id = l.prev.in.id.id
    /\ l.out.ret[1].id.Role = l.prev.in.id.Role
    /\ l.out.ret[1].id.OU = l.prev.in.id.OU

\* C6 as stated: Deserialize(Serialize(id)) parses and yields the same id
\* string, role and OU for every built identity, keys of odd length and of
\* fewer than two bytes included.
C6_Original == RoundTrip(last) => SameIdentity(last)

\* C6 as amended: Deserialize(Serialize(id)) parses and yields the same id
\* string, role and OU for every built identity whose raw key has at least two
\* bytes, odd lengths included; a key of fewer than two bytes serializes with
\* an empty nym_x and is rejected as an invalid pseudonym.
C6_RoundTripFromTwoBytes ==
    RoundTrip(last)
        => IF Len(last.prev.in.id.NymPublicKey.raw) >= 2
           THEN SameIdentity(last)
           ELSE /\ last.out.ret = None
                /\ last.out.err
                     = <<"unable to deserialize idemix identity: pseudonym is invalid">>

C6_Witness ==
    /\ RoundTrip(last)
    /\ Len(last.prev.in.id.NymPublicKey.raw) = 3
    /\ SameIdentity(last)

----------------------------------------------------------------------------

\* A NewProvider call whose configuration unmarshals and has no signer block.
WithoutSigner(l) ==
    /\ l.op = "NewProvider"
    /\ l.in.conf1 # None
    /\ l.in.conf1[1].form # "garbage"
    /\ l.in.conf1[1].conf.Signer = None

\* C7: NewProvider given a configuration without a signer block returns an
\* error and no provider, also when both public keys import; no provider exists
\* without a user secret key handle.
C7_NoProviderWithoutSigner ==
    /\ WithoutSigner(last) => last.out.err # NoErr /\ last.out.ret = None
    /\ (last.op = "NewProvider" /\ last.out.ret # None)
          => /\ last.out.ret[1].userKey # None
             /\ last.in.conf1[1].conf.Signer # None
    /\ prov # None => prov[1].userKey # None

C7_Witness ==
    /\ WithoutSigner(last)
    /\ last.in.eng = AllOK
    /\ last.out.ret = None
    /\ last.out.err
         = <<"idemix provider setup as verification only provider (no key material found)">>

\* An Identity call in which RegisterSigner was called and returned an error.
RegistrationFailed(l) ==
    /\ l.op = "Identity"
    /\ MadeCall(l, "RegisterSigner")
    /\ l.in.eng.reg # NoErr

\* C8: when RegisterSigner returns an error during Identity(), Identity()
\* returns that error and neither a serialized identity nor audit info.
C8_RegistrationFailureFails ==
    RegistrationFailed(last)
        => /\ last.out.err = last.in.eng.reg
           /\ last.out.ret = None
           /\ last.out.info = None

C8_Witness ==
    /\ RegistrationFailed(last)
    /\ last.out.err = EngineErr
    /\ last.out.ret = None

\* A DeserializeSigner call on bytes that deserialize and validate while the
\* key store holds no secret key under the SKI of the reconstructed key.
NoLocalSecret(l) ==
    /\ l.op = "DeserializeSigner"
    /\ Deserialize(l.in.support, l.in.raw, TRUE,
                   [import |-> l.in.eng.import, bytes |-> l.in.eng.bytes,
                    verify |-> l.in.eng.verify]).ret # None
    /\ (l.in.raw.IdBytes.NymX \o l.in.raw.IdBytes.NymY) \notin l.in.keyStore

\* C9: DeserializeSigner, given bytes that deserialize and validate but whose
\* pseudonym secret key is not in the local key store, returns an error and no
\* signer.
C9_NoSecretNoSigner ==
    NoLocalSecret(last)
        => /\ last.out.ret = None
           /\ ~last.out.panic
           /\ last.out.err # NoErr
           /\ last.out.err[1] = "cannot find nym secret key"

\* The witness: another key of this node is stored, the one asked for is not.
C9_Witness ==
    /\ NoLocalSecret(last)
    /\ last.in.keyStore # {}
    /\ last.in.eng.get = NoErr
    /\ last.out.ret = None /\ last.out.err # NoErr

\* C10: DeserializeSigner returns a signer only if the signing identity it
\* built signed the probe message and the engine reported that signature valid
\* under the identity's pseudonym public key.
C10_SignerOnlyAfterValidProbe ==
    (last.op = "DeserializeSigner" /\ last.out.ret # None)
        => /\ last.in.eng.sign = NoErr
           /\ last.in.eng.probe.valid
           /\ last.in.eng.probe.err = NoErr

----------------------------------------------------------------------------

\* What support.Deserialize(raw, true) does with the bytes and the engine
\* answers of an entry point's call.
CanonicalParse(l) == Deserialize(l.in.support, l.in.raw, TRUE, l.in.eng)

\* The identity an entry point's result was made of.
IdentityWorkedOn(l) ==
    IF l.op = "DeserializeVerifier" THEN l.out.ret[1] ELSE l.out.ret[1].identity

\* Whether the result of an entry point was made of the identity d.
WorksOn(l, d) ==
    IF l.op = "Info"
    THEN /\ l.out.ret[1].mspid = d.si.Mspid
         /\ l.out.ret[1].ou = d.id.OU.OrganizationalUnitIdentifier
         /\ l.out.ret[1].role = RoleString(d.id.Role.Role)
    ELSE IdentityWorkedOn(l) = d.id

\* C11 as stated: each deserialization entry point of the provider rejects the
\* bytes exactly when support.Deserialize(raw, true) rejects them, and
\* otherwise works on the identity support.Deserialize builds.
C11_Original ==
    last.op \in ValidatingOps
        => /\ (last.out.ret = None) <=> (CanonicalParse(last).ret = None)
           /\ last.out.ret # None => WorksOn(last, CanonicalParse(last).ret[1])

\* C11 as amended: each deserialization entry point of the provider rejects,
\* with the error (or the panic) of support.Deserialize(raw, true), all bytes
\* that support.Deserialize(raw, true) rejects, after the same engine calls;
\* what it returns is made of the identity support.Deserialize builds;
\* DeserializeVerifier rejects nothing else, while DeserializeSigner,
\* DeserializeSigningIdentity and Info also reject in their own later steps
\* (secret key lookup, probe, audit info).
C11_SingleParsePath ==
    last.op \in ValidatingOps
        => LET D == CanonicalParse(last)
           IN  /\ D.ret = None
                    => /\ last.out.ret = None
                       /\ last.out.err = D.err
                       /\ last.out.panic = D.panic
                       /\ last.out.calls = D.calls
               /\ D.ret # None
                    => /\ ~last.out.panic
                       /\ SubSeq(last.out.calls, 1, Len(D.calls)) = D.calls
               /\ last.out.ret # None => WorksOn(last, D.ret[1])
               /\ last.op = "DeserializeVerifier" /\ D.ret # None => last.out.ret # None

C11_Witness ==
    /\ last.op = "DeserializeSigningIdentity"
    /\ last.out.ret # None
    /\ last.out.ret[1].identity = CanonicalParse(last).ret[1].id
    /\ last.out.ret[1].identity.Role.Role = MSPRole_ADMIN

----------------------------------------------------------------------------

\* An Info call that was given audit bytes.
InfoWithAudit(l) == l.op = "Info" /\ l.in.auditInfo # None

\* What decoding the audit bytes of an Info call gives.
DecodedAudit(l) == AuditInfoFromBytes(l.in.auditInfo[1])

\* C12: Info given audit bytes returns a descriptor only if raw deserializes
\* and validates, the audit bytes decode and the decoded AuditInfo matches raw;
\* when decoding or Match fails it returns that error and no descriptor; the
\* enrollment id of a descriptor is the one of the decoded AuditInfo.
C12_InfoRequiresMatchingAudit ==
    InfoWithAudit(last)
        => LET D == CanonicalParse(last)
               ai == DecodedAudit(last)
           IN  /\ last.out.ret # None
                    => /\ D.ret # None
                       /\ ai.err = NoErr
                       /\ last.in.eng.match = NoErr
                       /\ last.out.err = NoErr
                       /\ last.out.ret[1].eid = EnrollmentID(ai.ai)
               /\ (D.ret # None /\ ai.err # NoErr)
                    => last.out.ret = None /\ last.out.err = ai.err
               /\ (D.ret # None /\ ai.err = NoErr /\ last.in.eng.match # NoErr)
                    => last.out.ret = None /\ last.out.err = last.in.eng.match

C12_Witness ==
    /\ InfoWithAudit(last)
    /\ last.out.ret # None
    /\ last.out.ret[1].eid = "alice"
    /\ last.out.ret[1].role = "ADMIN"

----------------------------------------------------------------------------

\* An Info call that was given no audit bytes (nil or empty).
InfoWithoutAudit(l) == l.op = "Info" /\ l.in.auditInfo = None

\* C13: Info given nil or empty audit bytes decodes and matches no AuditInfo,
\* returns a descriptor only for bytes that support.Deserialize(raw, true)
\* accepts and otherwise the error of support.Deserialize, and its descriptor
\* has an empty enrollment id next to the unique id of raw, the authority name
\* of the envelope, the OU id and the role.
C13_InfoWithoutAudit ==
    InfoWithoutAudit(last)
        => LET D == CanonicalParse(last)
           IN  /\ ~MadeCall(last, "FromBytes") /\ ~MadeCall(last, "Match")
               /\ (last.out.ret # None) <=> (D.ret # None)
               /\ D.err # NoErr => last.out.err = D.err
               /\ last.out.ret # None
                    => /\ last.out.err = NoErr
                       /\ last.out.ret[1] =
                            [eid |-> "",
                             uid |-> UniqueID(last.in.raw),
                             mspid |-> last.in.raw.Mspid,
                             ou |-> last.in.raw.IdBytes.Ou.OrganizationalUnitIdentifier,
                             role |-> RoleString(last.in.raw.IdBytes.Role.Role)]

C13_Witness ==
    /\ InfoWithoutAudit(last)
    /\ last.out.ret # None
    /\ last.out.ret[1].eid = ""
    /\ last.out.ret[1].ou = "manufacturing"
    /\ last.out.ret[1].role = "ADMIN"
    /\ last.out.ret[1].mspid = "OrgXMSP"

----------------------------------------------------------------------------

\* The entry points that parse serialized identities.
ParsingOps == ValidatingOps \cup {"Deserialize"}

\* Whether the engine's answers keep to what the code expects of it: Bytes() of
\* a key it imported succeeds, and Verify does not answer "invalid" without an
\* error.
WithinContract(eng) ==
    /\ eng.bytes = NoErr
    /\ ~(eng.verify.err = NoErr /\ ~eng.verify.valid)

\* Whether the bytes are not a well-formed serialized identity.
Malformed(raw) ==
    \/ raw.form = "garbage" \/ raw.IdBytes.form = "garbage"
    \/ raw.IdBytes.NymX = <<>> \/ raw.IdBytes.NymY = <<>>
    \/ raw.IdBytes.Ou.form = "garbage" \/ raw.IdBytes.Role.form = "garbage"

----------------------------------------------------------------------------

\* The entry points of the provider.
IssuingOps == {"Identity", "SignerIdentity"}
ProviderOps == IssuingOps \cup ValidatingOps

\* Whether the engine kept to its contract in the last call (see C14).
EngineKeptContract(l) ==
    IF l.op \in IssuingOps THEN l.in.eng.bytes = NoErr ELSE WithinContract(l.in.eng)

\* C15: every provider entry point ends by returning a result or an error
\* value and does not abort, also an Identity() call made when no signer
\* service can be obtained from the service provider.
C15_EntryPointsReturn ==
    (last.op \in ProviderOps /\ EngineKeptContract(last)) => ~last.out.panic

----------------------------------------------------------------------------

\* The key derivation of an issuing call: its first engine call.
Derivation(l) == l.out.calls[1]

\* C16: SignerIdentity() derives its pseudonym key with the temporary flag
\* set, never calls the signer registry and produces no audit info, and leaves
\* the persistent key store and the registry as they were; Identity() derives
\* its pseudonym key with the temporary flag cleared.
C16_SignerIdentityIsTransient ==
    /\ last.op = "SignerIdentity"
          => /\ Derivation(last).fn = "KeyDeriv" /\ Derivation(last).Temporary
             /\ ~MadeCall(last, "RegisterSigner")
             /\ last.out.info = None
             /\ keyStore = last.before.keyStore
             /\ registry = last.before.registry
    /\ last.op = "Identity"
          => Derivation(last).fn = "KeyDeriv" /\ ~Derivation(last).Temporary

\* A SignerIdentity call that returns a signing identity on a node that has
\* issued a registered identity before.
C16_Witness ==
    /\ last.op = "SignerIdentity"
    /\ last.out.ret # None
    /\ last.before.keyStore # {} /\ last.before.registry # {}
    /\ SKI(last.out.ret[1].NymKey.pub) \notin keyStore
    /\ keyStore = last.before.keyStore /\ registry = last.before.registry

----------------------------------------------------------------------------

\* What a signing identity discloses: authority name, pseudonym public key, OU,
\* role and proof.
Disclosed(si) ==
    [name |-> si.identity.support.name, key |-> si.identity.NymPublicKey,
     OU |-> si.identity.OU, Role |-> si.identity.Role,
     proof |-> si.identity.associationProof]

\* The proof generation and proof verification calls of the last call: the
\* engine calls that carry attributes and a revocation-handle index.
ProofCalls(l) ==
    {i \in 1..Len(l.out.calls) :
        /\ l.out.calls[i].fn \in {"Sign", "Verify"}
        /\ "RhIndex" \in DOMAIN l.out.calls[i]}

\* C17: two signing identities with the same authority name, pseudonym public
\* key, OU, role and proof serialize to the same bytes whatever their
\* enrollment id, credential, user secret key and pseudonym secret key handle;
\* every proof generation and proof verification call has Hidden attributes at
\* positions 2 and 3 (counted from 0) and revocation-handle index 3.
C17_WireFormHidesSecrets ==
    /\ last.op = "SerializeSigningIdentity"
          => (Disclosed(last.in.a) = Disclosed(last.in.b) => last.out.a = last.out.b)
    /\ last.op \in ProviderOps \cup {"Deserialize"}
          => \A i \in ProofCalls(last) :
                /\ last.out.calls[i].Attributes[3].Type = "Hidden"
                /\ last.out.calls[i].Attributes[4].Type = "Hidden"
                /\ last.out.calls[i].RhIndex = 3

\* Two signing identities that differ in every secret and serialize alike.
C17_Witness ==
    /\ last.op = "SerializeSigningIdentity"
    /\ last.in.a.enrollmentId # last.in.b.enrollmentId
    /\ last.in.a.Cred # last.in.b.Cred
    /\ last.in.a.UserKey # last.in.b.UserKey
    /\ last.in.a.NymKey # last.in.b.NymKey
    /\ last.out.a.err = NoErr
    /\ last.out.a = last.out.b

----------------------------------------------------------------------------
(* Concurrent Identity() and SignerIdentity() calls on one provider.       *)
(* Each call runs the statements of its function one engine call at a      *)
(* time; nymKey, NymPublicKey, proof and raw are its local variables, the   *)
(* provider is only read, and the engine's key store and the signer        *)
(* registry are shared.  last.calls holds the calls in progress.           *)

MaxCalls == 2
Calls == 1..MaxCalls

\* The provider the concurrent calls are made on.
ConcProvider ==
    NewProvider(Some([form |-> "canonical",
                      conf |-> Conf("OrgXMSP", Some(SignerConf(ADMIN)))]),
                [signerService |-> TRUE], AllOK).ret

\* A call that has not executed a statement yet.
Started(kind) ==
    [kind |-> kind, pc |-> "KeyDeriv", nymKey |-> None, NymPublicKey |-> None,
     signed |-> None, proof |-> <<>>, raw |-> None, ret |-> None, err |-> NoErr]

InitConc ==
    /\ prov = ConcProvider
    /\ keyStore = {}
    /\ registry = {}
    /\ nDerived = 0
    /\ \E kinds \in [Calls -> {"Identity", "SignerIdentity"}] :
          last = [op |-> "concurrent", calls |-> [c \in Calls |-> Started(kinds[c])]]
    /\ InitDB
    /\ InitDeliver
    /\ InitSP
    /\ InitNode

\* Faulty variant of NymKeyInUse: the provider keeps the derived key in a
\* field, so a call works with the key derived last by any call.
NymKeyShared(calls, c) ==
    LET derived == {d \in DOMAIN calls : calls[d].nymKey # None}
        newest == CHOOSE d \in derived :
                      \A e \in derived : calls[e].nymKey[1].handle <= calls[d].nymKey[1].handle
    IN  calls[newest].nymKey[1]

\* The pseudonym key a call works with after its derivation: its local nymKey.
NymKeyInUse(calls, c) == calls[c].nymKey[1]

\* The call c goes on with the fields f of its record changed.
Step(c, f) ==
    last' = [last EXCEPT !.calls[c] =
                [x \in DOMAIN @ |-> IF x \in DOMAIN f THEN f[x] ELSE @[x]]]

\* The call c returns the error err.
Finish(c, err) == Step(c, [pc |-> "done", err |-> err])

Running(c, pc) == last.op = "concurrent" /\ last.calls[c].pc = pc

\* nymKey, err := p.csp.KeyDeriv(p.userKey, ...): the engine hands out a new
\* handle, and stores the key unless it is temporary.
ConcKeyDeriv ==
    \E c \in Calls :
        /\ Running(c, "KeyDeriv")
        /\ \/ /\ Finish(c, WithMessage(EngineErr, "failed deriving nym"))
              /\ UNCHANGED <<prov, keyStore, registry, nDerived, notIdentity>>
           \/ \E k \in DerivKeys :
                 /\ Step(c, [pc |-> "PublicKey",
                             nymKey |-> Some(NymSK(nDerived + 1, k, NoErr))])
                 /\ nDerived' = nDerived + 1
                 /\ keyStore' = IF last.calls[c].kind = "Identity"
                                THEN keyStore \cup {k} ELSE keyStore
                 /\ UNCHANGED <<prov, registry, notIdentity>>

\* NymPublicKey, err := nymKey.PublicKey()
ConcPublicKey ==
    \E c \in Calls :
        /\ Running(c, "PublicKey")
        /\ \/ Finish(c, Wrap(EngineErr, "failed getting public nym key"))
           \/ Step(c, [pc |-> "VerifyCredential",
                       NymPublicKey |-> Some(NymKeyInUse(last.calls, c).pub)])
        /\ UNCHANGED <<prov, keyStore, registry, nDerived, notIdentity>>

\* valid, err := p.csp.Verify(p.userKey, p.conf.Signer.Cred, ...)
ConcVerifyCredential ==
    \E c \in Calls, ans \in VerifyAnswers :
        /\ Running(c, "VerifyCredential")
        /\ IF ans.err # NoErr \/ ~ans.valid
           THEN Finish(c, WithMessage(ans.err, "Credential is not cryptographically valid"))
           ELSE Step(c, [pc |-> "Sign"])
        /\ UNCHANGED <<prov, keyStore, registry, nDerived, notIdentity>>

\* proof, err := p.csp.Sign(p.userKey, nil, opts) with opts.Nym = nymKey
ConcSign ==
    \E c \in Calls :
        /\ Running(c, "Sign")
        /\ \/ Step(c, [pc |-> "done",
                       signed |-> Some(SignProofCall(prov[1], NymKeyInUse(last.calls, c))),
                       err |-> WithMessage(EngineErr,
                                           "Failed to setup cryptographic proof of identity")])
           \/ Step(c, [pc |-> "newIdentity",
                       signed |-> Some(SignProofCall(prov[1], NymKeyInUse(last.calls, c))),
                       proof |-> <<7>>])
        /\ UNCHANGED <<prov, keyStore, registry, nDerived, notIdentity>>

\* The signing identity is built; Identity serializes it, SignerIdentity
\* returns it.
ConcNewIdentity ==
    \E c \in Calls :
        /\ Running(c, "newIdentity")
        /\ LET me == last.calls[c]
               built == newIdentity(prov[1].support, me.NymPublicKey[1], ProviderRole(prov[1]),
                                    ProviderOU(prov[1]), me.proof)
               sID == [identity |-> built.id, Cred |-> prov[1].conf.Signer[1].Cred,
                       UserKey |-> prov[1].userKey, NymKey |-> NymKeyInUse(last.calls, c),
                       enrollmentId |-> prov[1].conf.Signer[1].EnrollmentId]
           IN  IF me.kind = "SignerIdentity"
               THEN Step(c, [pc |-> "done", ret |-> Some(sID)])
               ELSE Step(c, [pc |-> "RegisterSigner", ret |-> Some(sID),
                             raw |-> Some(SerializeSigningIdentity(sID).raw)])
        /\ UNCHANGED <<prov, keyStore, registry, nDerived, notIdentity>>

\* err = GetSignerService(p.sp).RegisterSigner(raw, sID, sID)
ConcRegisterSigner ==
    \E c \in Calls :
        /\ Running(c, "RegisterSigner")
        /\ \/ /\ Step(c, [pc |-> "done", ret |-> None, err |-> EngineErr])
              /\ UNCHANGED registry
           \/ /\ Step(c, [pc |-> "AuditInfo"])
              /\ registry' = registry \cup {last.calls[c].raw[1]}
        /\ UNCHANGED <<prov, keyStore, nDerived, notIdentity>>

\* infoRaw, err := auditInfo.Bytes(); return raw, infoRaw, nil
ConcAuditInfo ==
    \E c \in Calls :
        /\ Running(c, "AuditInfo")
        /\ \/ Step(c, [pc |-> "done", ret |-> None, err |-> EngineErr])
           \/ Step(c, [pc |-> "done"])
        /\ UNCHANGED <<prov, keyStore, registry, nDerived, notIdentity>>

NextConc ==
    \/ ConcKeyDeriv
    \/ ConcPublicKey
    \/ ConcVerifyCredential
    \/ ConcSign
    \/ ConcNewIdentity
    \/ ConcRegisterSigner
    \/ ConcAuditInfo

SpecConc == InitConc /\ [][NextConc]_vars

\* The calls that hold a derived key.
Derived(calls) == {c \in DOMAIN calls : calls[c].nymKey # None}

\* Every call that holds a key holds a handle of its own, and signed with,
\* built its signing identity around and serialized that key and no other.
OwnHandles(calls) ==
    /\ \A c, d \in Derived(calls) :
          c # d => calls[c].nymKey[1].handle # calls[d].nymKey[1].handle
    /\ \A c \in Derived(calls) :
          LET me == calls[c]
          IN  /\ me.NymPublicKey # None => me.NymPublicKey[1] = me.nymKey[1].pub
              /\ me.signed # None => me.signed[1].Nym = me.nymKey[1]
              /\ me.ret # None
                    => /\ me.ret[1].NymKey = me.nymKey[1]
                       /\ me.ret[1].identity.NymPublicKey = me.nymKey[1].pub
              /\ me.raw # None
                    => me.raw[1].IdBytes.NymX \o me.raw[1].IdBytes.NymY = me.nymKey[1].pub.raw
    /\ \A c \in DOMAIN calls \ Derived(calls) :
          calls[c].signed = None /\ calls[c].raw = None /\ calls[c].ret = None

\* No step of any call changes a key a call already holds.
HandlesKept ==
    \A c \in Derived(last.calls) : last'.calls[c].nymKey = last.calls[c].nymKey

\* C18: in every interleaving of concurrent Identity() and SignerIdentity()
\* calls on one provider each call obtains its own pseudonym key handle from
\* its own derivation, the handles of different calls are distinct, and no
\* call signs with, serializes or changes a handle of another call.
C18_CallsKeepTheirOwnHandles ==
    /\ [](last.op = "concurrent" => OwnHandles(last.calls))
    /\ [][last.op = "concurrent" => HandlesKept]_vars

\* Two calls interleaved: the call that derived second has signed while the
\* call that derived first has not yet, and a third party's view of the first
\* is unchanged.
C18_Witness ==
    /\ last.op = "concurrent"
    /\ Derived(last.calls) = Calls
    /\ last.calls[1].nymKey[1].handle = 1 /\ last.calls[2].nymKey[1].handle = 2
    /\ last.calls[1].pc = "VerifyCredential"
    /\ last.calls[2].pc = "done" /\ last.calls[2].ret # None
    /\ last.calls[2].kind = "Identity" /\ last.calls[1].kind = "SignerIdentity"

----------------------------------------------------------------------------

\* Whether an engine call or a codec call made in the last operation returned
\* an error.
CallFailed(l) ==
    \/ l.op = "GetOrganizationalUnits" /\ l.in.bytesErr # NoErr
    \/ l.op = "Serialize" /\ l.in.id.NymPublicKey.bytesErr # NoErr
    \/ l.op = "Verify" /\ l.in.ans.err # NoErr
    \/ l.op = "Validate" /\ l.in.ans.err # NoErr
    \/ l.op = "Deserialize"
          /\ \/ l.in.raw.form = "garbage"
             \/ l.in.raw.IdBytes.form = "garbage"
             \/ MadeCall(l, "KeyImport") /\ l.in.eng.import # NoErr

\* Whether the last operation returned a failure to its caller.
ReturnedFailure(l) ==
    IF l.op = "GetOrganizationalUnits" THEN FALSE \* it has no error result
    ELSE l.out.err # NoErr

\* C19: whenever an engine call or a codec call made inside an operation
\* returns an error, the operation returns a failure to its caller and no
\* success or silently empty result.
C19_ErrorsAreReturned == CallFailed(last) => ReturnedFailure(last)

----------------------------------------------------------------------------

\* C20: SatisfiesPrincipal, for every principal, returns a "not implemented"
\* failure to its caller and leaves the identity as it was.
C20_SatisfiesPrincipalNotImplemented ==
    last.op = "SatisfiesPrincipal"
        => /\ ~last.out.panic
           /\ last.out.err # NoErr
           /\ last.out.id = last.in.id

----------------------------------------------------------------------------

\* The engine answers to a proof verification that contradict themselves:
\* valid with an error, or invalid without one.
Inconsistent(ans) == ans.valid = (ans.err # NoErr)

\* C21: in proof verification both inconsistent engine answers, (valid,
\* error) and (invalid, no error), are fatal: neither comes back as an
\* ordinary validation error and neither comes back as success.
C21_InconsistentAnswersAreFatal ==
    (last.op = "Validate" /\ Inconsistent(last.in.ans))
        => /\ last.out.panic
           /\ last.out.err = NoErr

----------------------------------------------------------------------------

\* A Deserialize call on bytes whose envelope and inner record parse and whose
\* inner record lacks nym_x or nym_y.
NymAbsent(l) ==
    /\ l.op = "Deserialize"
    /\ l.in.raw.form # "garbage" /\ l.in.raw.IdBytes.form # "garbage"
    /\ (l.in.raw.IdBytes.NymX = <<>> \/ l.in.raw.IdBytes.NymY = <<>>)

\* C22: support.Deserialize returns an error whenever nym_x or nym_y is absent
\* from the inner record, and then imports no key, builds no identity and
\* verifies no proof.
C22_AbsentNymRejected ==
    NymAbsent(last)
        => /\ last.out.err
                = <<"unable to deserialize idemix identity: pseudonym is invalid">>
           /\ last.out.ret = None
           /\ ~last.out.panic
           /\ last.out.calls = <<>>

\* nym_y alone carries a whole key and the engine would accept everything.
C22_Witness ==
    /\ NymAbsent(last)
    /\ last.in.raw.IdBytes.NymX = <<>> /\ Len(last.in.raw.IdBytes.NymY) = 2
    /\ last.in.checkValidity /\ last.in.eng = Accepting
    /\ last.out.ret = None /\ last.out.calls = <<>>

----------------------------------------------------------------------------

\* A support.Deserialize call of the provider that got as far as building the
\* identity: the bytes are well formed and the engine imported the key.
BuiltIdentity(l) ==
    /\ l.op = "Deserialize" /\ "before" \in DOMAIN l
    /\ ~Malformed(l.in.raw)
    /\ l.in.eng.import = NoErr /\ l.in.eng.bytes = NoErr

\* What Validate() answers on the identity the call built.
ValidateOfBuilt(l) ==
    Validate(Deserialize(l.in.support, l.in.raw, FALSE, l.in.eng).ret[1].id, l.in.eng.verify)

\* C23: support.Deserialize(raw, false) never asks the engine to verify the
\* proof and returns the parsed identity also when the proof is invalid;
\* support.Deserialize(raw, true) returns an error and no identity whenever
\* Validate() returns an error; in both modes the pseudonym public key is
\* imported as a temporary key and the persistent key store stays as it was.
C23_CheckValidityFlag ==
    (last.op = "Deserialize" /\ "before" \in DOMAIN last)
        => /\ ~last.in.checkValidity => ~MadeCall(last, "Verify")
           /\ (BuiltIdentity(last) /\ ~last.in.checkValidity)
                => /\ last.out.ret # None /\ last.out.err = NoErr
                   /\ last.out.ret[1].id.associationProof = last.in.raw.IdBytes.Proof
           /\ (BuiltIdentity(last) /\ last.in.checkValidity
                 /\ ValidateOfBuilt(last).err # NoErr)
                => /\ last.out.ret = None
                   /\ last.out.err = Wrap(ValidateOfBuilt(last).err,
                                          "cannot deserialize, invalid identity")
           /\ \A i \in 1..Len(last.out.calls) :
                 last.out.calls[i].fn = "KeyImport" => last.out.calls[i].Temporary
           /\ keyStore = last.before.keyStore

\* An unchecked parse of an identity whose proof the engine would reject, on a
\* node that holds keys of its own.
C23_Witness ==
    /\ BuiltIdentity(last) /\ ~last.in.checkValidity
    /\ ~last.in.eng.verify.valid /\ last.in.eng.verify.err # NoErr
    /\ last.out.ret # None
    /\ MadeCall(last, "KeyImport")
    /\ keyStore # {} /\ SKI(last.out.ret[1].NymPublicKey) \notin keyStore

----------------------------------------------------------------------------

\* C24: Identity() registers a signer only in calls that return successfully:
\* whenever it returns an error, at any step, the registry holds no signer for
\* the identity of that call.
C24_RegistrationAllOrNothing ==
    (last.op = "Identity" /\ last.out.err # NoErr)
        => /\ last.out.registered = {}
           /\ registry = last.before.registry

----------------------------------------------------------------------------
(* The store: update transactions *)

SpecDB == Init /\ [][NextDB]_vars

OpenTxns == {i \in DOMAIN txns : txns[i].state = "open"}

\* The call of goroutine t returns in this step.
Returns(t) == dbCalls'[t] # dbCalls[t] /\ dbCalls'[t].pc = "done"

\* C25: at most one update transaction is in progress: BeginUpdate fails with
\* an error and starts nothing when one is in progress, Commit and Discard
\* fail with an error when none is, and a successful Commit or Discard leaves
\* none in progress.
C25_OneUpdateAtATime ==
    /\ [](Cardinality(OpenTxns) <= 1)
    /\ [][\A t \in Threads : Returns(t) =>
            LET c == dbCalls'[t]
            IN  /\ (c.op = "BeginUpdate" /\ db.txn # None)
                      => (c.err # NoErr /\ db' = db /\ txns' = txns)
                /\ (c.op \in {"Commit", "Discard"} /\ c.seen = None)
                      => (c.err # NoErr /\ db' = db /\ txns' = txns)
                /\ (c.op \in {"Commit", "Discard"} /\ c.err = NoErr)
                      => (db'.txn = None /\ OpenTxns' = {})]_vars

\* A BeginUpdate was refused while an update was open, and a Commit of
\* another goroutine has succeeded.
C25_Witness ==
    \E t, u \in Threads :
        /\ dbCalls[t].op = "BeginUpdate" /\ dbCalls[t].pc = "done"
        /\ dbCalls[t].err = Errorf("previous commit in progress")
        /\ dbCalls[u].op = "Commit" /\ dbCalls[u].pc = "done"
        /\ dbCalls[u].err = NoErr
        /\ Len(txns) = 1

\* C26: after any call of Commit returns, with success or with the error of
\* the underlying commit, no update transaction is in progress, so that the
\* next BeginUpdate succeeds.
C26_CommitEndsTheUpdate ==
    \A t \in Threads :
        (dbCalls[t].op = "Commit" /\ dbCalls[t].pc = "done"
            /\ dbCalls[t].seen # None)
            => dbCalls[t].after = None

\* C27: under every interleaving of the writers with Commit, Discard and
\* BeginUpdate, a write that found an update in progress is applied to the
\* update in progress: it neither ends on a transaction that was committed or
\* discarded, nor is lost.
C27_WritesReachTheUpdate ==
    \A t \in Threads :
        (dbCalls[t].op \in WriteOps /\ dbCalls[t].seen # None)
            => /\ dbCalls[t].pc # "panic"
               /\ dbCalls[t].on # None => dbCalls[t].onState = "open"

----------------------------------------------------------------------------
(* Waiting for the commit of a transaction *)

SpecDeliver == Init /\ [][NextDeliver]_vars

\* C28: DeliverReceive puts at most one event on the event channel and never
\* blocks on that send; the event reports Committed only if a filtered block
\* it received held the awaited txid with code VALID, and in every other
\* outcome Committed is false and DeliverReceive returns a non-nil error.
C28_DeliverReceiveReportsOnce ==
    /\ deliver.pc # "idle" =>
          /\ deliver.sent <= 1
          /\ Len(eventCh.buf) <= deliver.sent
          /\ \A i \in DOMAIN eventCh.buf : eventCh.buf[i] = deliver.event
    /\ deliver.pc = "send" => ENABLED SendEvent
    /\ deliver.pc \in {"send", "done"} =>
          /\ deliver.event.Txid = "tx1"
          /\ deliver.event.Committed
                => (deliver.validSeen /\ deliver.event.Err = NoErr)
          /\ ~deliver.event.Committed => deliver.event.Err # NoErr
    /\ deliver.pc = "done" =>
          deliver.ret = (IF deliver.event.Committed THEN NoErr ELSE deliver.event.Err)

\* The awaited transaction came invalid in the second response, a filtered
\* block, after a block without it; the channel had no room and no receiver,
\* and the call returned.
C28_Witness ==
    /\ deliver.pc = "done"
    /\ deliver.read = 2
    /\ deliver.resp # None
    /\ deliver.resp[1].type = "FilteredBlock"
    /\ ~deliver.validSeen
    /\ ~deliver.event.Committed
    /\ deliver.ret = Errorf("transaction status is not valid")
    /\ deliver.sent = 0
    /\ eventCh.cap = 0

----------------------------------------------------------------------------
(* The service registry *)

SpecSP == Init /\ [][NextSP]_vars

\* C29: once GetService has resolved an interface type to a service, every
\* later GetService for that type returns the same service whatever services
\* are registered afterwards; the service resolved is the earliest-registered
\* one implementing the type, and a lookup that finds no service returns an
\* error without changing the registry.
C29_ResolutionIsStable ==
    LET l == lookups.last
    IN  (l.op = "GetService" /\ ~l.out.panic) =>
            LET elem == InterfaceType(l.typ.name)
                ks == Implementing(registrySP.services, elem)
            IN  /\ l.out.service # None =>
                      /\ l.out.err = NoErr
                      /\ l.out.service = lookups.first[l.typ.name]
                      /\ ks # {}
                      /\ \A k \in ks :
                            \/ registrySP.services[k] = l.out.service[1]
                            \/ \E j \in ks : j < k /\ registrySP.services[j] = l.out.service[1]
                /\ l.out.service = None =>
                      /\ l.out.err # NoErr
                      /\ ks = {}
                      /\ registrySP = l.before

\* An interface resolved to the service registered first, a second service
\* implementing it was registered afterwards, and a later lookup by the same
\* pointer type returned the first service again.
C29_Witness ==
    LET l == lookups.last
    IN  /\ l.op = "GetService"
        /\ l.typ = PtrTo("I1")
        /\ Len(registrySP.services) = 2
        /\ "I1" \in registrySP.services[1].implements
        /\ "I1" \in registrySP.services[2].implements
        /\ registrySP.services[1] # registrySP.services[2]
        /\ InterfaceType("I1") \in DOMAIN l.before.serviceMap
        /\ l.out.service = Some(registrySP.services[1])

----------------------------------------------------------------------------
(* The node synthesizer's imports *)

SpecNode == Init /\ [][NextNode]_vars

\* C30: for every sequence of AddSDK, RegisterViewFactory and
\* RegisterResponder calls on a Node created by NewNode or by
\* NewNodeFromTemplate, addImport completes without aborting, keeps Imports
\* sorted and free of duplicates, gives every imported path an alias entry,
\* and assigns distinct aliases to distinct import paths.
C30_ImportsAndAliases ==
    /\ ~nodeCall.panic
    /\ \A k \in DOMAIN node.Imports :
          /\ k > 1 => Less(node.Imports[k - 1], node.Imports[k])
          /\ node.Aliases # None
          /\ node.Imports[k] \in DOMAIN node.Aliases[1]
    /\ \A k, l \in DOMAIN node.Imports :
          k # l => AliasOf(node, node.Imports[k]) # AliasOf(node, node.Imports[l])

====
